---- MODULE Spec2Model ----
(***************************************************************************)
(* GoldenSeed compression codec (src/src/gq/codec.py): the deterministic   *)
(* stream, the segment reader, encode / decode, and the JSON and binary    *)
(* envelope formats, modelled at byte level (specification Spec); the      *)
(* SeedCatalog of the same file (SpecCatalog) and the threads that read    *)
(* one catalog (SpecReaders); the user and API key tables of the service   *)
(* database, src/saas/database.py (SpecDb); and the rate limit of the      *)
(* service's request handlers, src/saas/app.py (SpecService).              *)
(*                                                                         *)
(* Conventions.  A Python bytes value is a sequence of integers 0..255.    *)
(* A hex string is a sequence of hex digits 0..15.  An Optional[T] value   *)
(* is the empty set (None) or a singleton set (the value).  A function     *)
(* that can raise returns a record whose err field is "" on success and    *)
(* names the exception otherwise.                                          *)
(***************************************************************************)
EXTENDS Integers, Sequences, FiniteSets, TLC

VARIABLES
  trail,  \* the calls made so far, oldest first
  args,   \* the arguments of the first call
  made,   \* the envelope as the encoder returned it
  sent,   \* the envelope whose serialized form is in wire
  env,    \* the envelope the caller holds now
  wire,   \* the serialized form last written
  res,    \* what the last call returned or raised
  entries,   \* SeedCatalog._entries of the catalog the caller fills
  exported,  \* the document export_catalog last returned, if any
  imported,  \* SeedCatalog._entries of the catalog the document is loaded in
  users,     \* the rows of table users, in id order
  api_keys,  \* the rows of table api_keys, in id order
  issued,    \* the keys create_api_key has returned, with their users
  revokes,   \* the <<key_id, user_id>> of the revoke_api_key calls on a key
  dbcall,    \* the last database call and what it returned
  readers,   \* the threads that read one catalog: where each is in its call
  requests,  \* the requests the service is handling: where each is
  usage_log, \* the rows of table usage_log, in id order
  clock      \* time.time(), in seconds

vars ==
  <<trail, args, made, sent, env, wire, res, entries, exported, imported,
    users, api_keys, issued, revokes, dbcall, readers, requests, usage_log,
    clock>>

\* the state of the catalogs
catalogVars == <<entries, exported, imported>>

\* the state of the service database and of its callers
dbVars == <<users, api_keys, issued, revokes, dbcall>>

\* the state of the threads that read one catalog
readerVars == <<readers>>

\* the state of the service's request handlers and of its usage log
serviceVars == <<requests, usage_log, clock>>

\* the state of a caller of the codec functions
codecVars == <<args, made, sent, env, wire>>

-----------------------------------------------------------------------------
(* Bounds of the model *)

\* longest data / stream segment drawn as an input
MaxLen == 3
\* largest scan_depth passed to encode
MaxScanDepth == 2
\* longest segment asked of the reader directly
MaxReadLen == 18
\* number of distinct readings of time.time()
MaxTime == 2
\* last second the service's clock reaches
MaxClock == 2
\* most rows of usage_log the service's requests get to write
MaxLog == 3

-----------------------------------------------------------------------------
(* Program constants *)

ENVELOPE_VERSION == 1

STREAM_CHUNK_SIZE == 16

\* The mutation: the magic is spelled in lower case, b"gqse"
ENVELOPE_MAGIC_lowercase == <<103, 113, 115, 101>>

\* b"GQSE"
ENVELOPE_MAGIC == <<71, 81, 83, 69>>

\* The hex literals are imported from universal_qkd; each is named here by
\* the constant that holds it.
SEED_REGISTRY ==
  [golden_ratio |-> "GOLDEN_RATIO_HEX", pi |-> "PI_HEX",
   e |-> "E_HEX", sqrt2 |-> "SQRT2_HEX"]

-----------------------------------------------------------------------------
(* Optional values, bytes, integers *)

None == {}

Some(x) == {x}

The(o) == CHOOSE x \in o : TRUE

\* Python truthiness of an Optional[str]: neither None nor ""
Truthy(o) == o # None /\ The(o) # ""

Min(a, b) == IF a < b THEN a ELSE b

RECURSIVE BitXor(_, _)
\* a ^ b on non-negative integers
BitXor(a, b) ==
  IF a = 0 THEN b
  ELSE IF b = 0 THEN a
  ELSE ((a + b) % 2) + 2 * BitXor(a \div 2, b \div 2)

\* bytes(a ^ b for a, b in zip(x, y)): zip stops at the shorter argument
XorZip(x, y) == [i \in 1..Min(Len(x), Len(y)) |-> BitXor(x[i], y[i])]

\* The mutation: an integer takes only as many bytes as its value needs
PackLE_minimal(n, width) ==
  IF n < 256 THEN <<n>> ELSE <<n % 256, (n \div 256) % 256>>

RECURSIVE PackLE(_, _)
\* struct.pack("<H" / "<I" / "<Q", n): n as `width` little-endian bytes
PackLE(n, width) ==
  IF width = 0 THEN <<>> ELSE <<n % 256>> \o PackLE(n \div 256, width - 1)

RECURSIVE UnpackLE(_)
\* struct.unpack of little-endian bytes
UnpackLE(b) == IF b = <<>> THEN 0 ELSE b[1] + 256 * UnpackLE(Tail(b))

\* Python slice s[lo:hi] with 0 <= lo (0-based, clipped to the sequence)
Slice(s, lo, hi) == SubSeq(s, lo + 1, Min(hi, Len(s)))

\* bytes.hex(): two hex digits per byte
Hex(b) == [i \in 1..(2 * Len(b)) |->
             IF i % 2 = 1 THEN b[(i + 1) \div 2] \div 16 ELSE b[i \div 2] % 16]

\* bytes.fromhex(h): ValueError on an odd number of digits
FromHex(h) ==
  IF Len(h) % 2 # 0
  THEN [err |-> "ValueError: fromhex", bytes |-> <<>>]
  ELSE [err |-> "",
        bytes |-> [i \in 1..(Len(h) \div 2) |-> 16 * h[2 * i - 1] + h[2 * i]]]

RECURSIVE SumBytes(_)
SumBytes(b) == IF b = <<>> THEN 0 ELSE b[1] + SumBytes(Tail(b))

-----------------------------------------------------------------------------
(* Library functions used by the codec *)

\* hashlib.sha256(data).digest(), idealised as collision-free on the data
\* the model draws (at most 31 bytes): 32 bytes that determine the data.
Sha256(data) ==
  <<Len(data) + 1>> \o data \o [i \in 1..(31 - Len(data)) |-> 0]

\* hashlib.sha256(data).hexdigest()
Sha256Hex(data) == Hex(Sha256(data))

\* zlib.compress(data, level): a two-byte header that records the level,
\* the payload, and a trailing check value.  Never empty.
ZlibCompress(data, level) ==
  <<120, IF level = 9 THEN 218 ELSE 156>> \o data \o <<SumBytes(data) % 256>>

\* zlib.decompress(z): zlib.error unless z is a well-formed stream
ZlibDecompress(z) ==
  IF /\ Len(z) >= 3
     /\ z[1] = 120
     /\ z[2] \in {1, 94, 156, 218}
     /\ z[Len(z)] = SumBytes(SubSeq(z, 3, Len(z) - 1)) % 256
  THEN [err |-> "", bytes |-> SubSeq(z, 3, Len(z) - 1)]
  ELSE [err |-> "zlib.error", bytes |-> <<>>]

\* str.encode("utf-8") on the seed identifiers the model uses
Utf8(s) ==
  CASE s = "golden_ratio" ->
         <<103, 111, 108, 100, 101, 110, 95, 114, 97, 116, 105, 111>>
    [] s = "pi" -> <<112, 105>>
    [] s = "e" -> <<101>>
    [] s = "sqrt2" -> <<115, 113, 114, 116, 50>>
    [] s = "nosuch" -> <<110, 111, 115, 117, 99, 104>>
    [] OTHER -> <<63>>

\* bytes.decode("utf-8"), the inverse of Utf8 on those identifiers
Utf8Decode(b) ==
  LET known == {"golden_ratio", "pi", "e", "sqrt2", "nosuch"}
  IN  IF \E s \in known : Utf8(s) = b
      THEN CHOOSE s \in known : Utf8(s) = b
      ELSE "?"

-----------------------------------------------------------------------------
(* The deterministic stream *)

\* hashlib.sha256(bytes.fromhex(seed_hex)).digest(): the initial generator
\* state, a function of the seed alone
SeedState(seed_hex) ==
  CASE seed_hex = "GOLDEN_RATIO_HEX" -> 1
    [] seed_hex = "PI_HEX" -> 2
    [] seed_hex = "E_HEX" -> 3
    [] seed_hex = "SQRT2_HEX" -> 4
    [] OTHER -> 5

\* Byte k of the stream of a seed: a fixed function of the initial state and
\* the position (collect_sifted_bits followed by xor_fold_hardening).
StreamByte(state, k) ==
  (((k * k * (state + 1) + 7 * k + 3 * state) % 61) % 5) * 51

\* Chunk i (0-based) yielded by _raw_stream_generator(seed_hex)
raw_stream_generator(seed_hex, i) ==
  [j \in 1..STREAM_CHUNK_SIZE |->
     StreamByte(SeedState(seed_hex), i * STREAM_CHUNK_SIZE + j - 1)]

\* Chunk i yielded by universal_qkd_generator(seed_hex): the same algorithm
\* as _raw_stream_generator, but it enforces the golden ratio checksum on the
\* seed and raises for every other seed.
universal_qkd_generator(seed_hex, i) ==
  IF seed_hex = SEED_REGISTRY.golden_ratio
  THEN [err |-> "", chunk |-> raw_stream_generator(seed_hex, i)]
  ELSE [err |-> "ValueError: seed checksum", chunk |-> <<>>]

-----------------------------------------------------------------------------
(* Stream segment reader *)

RECURSIVE ReadLoop(_, _, _, _, _, _)
\* for i, chunk in enumerate(gen): ... of _generate_stream_bytes; returns
\* the accumulated result and the number of chunks taken from the generator
ReadLoop(seed_hex, i, chunks_to_skip, start, length, result) ==
  LET chunk == raw_stream_generator(seed_hex, i)
  IN  IF i < chunks_to_skip
      THEN ReadLoop(seed_hex, i + 1, chunks_to_skip, start, length, result)
      ELSE LET extended ==
                 IF i = chunks_to_skip
                 THEN result \o Slice(chunk, start, Len(chunk))
                 ELSE result \o chunk
           IN  IF Len(extended) >= length
               THEN [result |-> extended, chunks |-> i + 1]
               ELSE ReadLoop(seed_hex, i + 1, chunks_to_skip, start, length,
                             extended)

\* The mutation: the first chunk is not trimmed to the offset inside it
generate_stream_bytes_untrimmed(seed_hex, offset, length) ==
  IF length = 0
  THEN [bytes |-> <<>>, gen |-> FALSE, chunks |-> 0]
  ELSE LET r == ReadLoop(seed_hex, 0, offset \div STREAM_CHUNK_SIZE, 0,
                         length, <<>>)
       IN  [bytes |-> Slice(r.result, 0, length), gen |-> TRUE,
            chunks |-> r.chunks]

\* The mutation: the accumulated chunks are returned without truncation
generate_stream_bytes_untruncated(seed_hex, offset, length) ==
  LET r == ReadLoop(seed_hex, 0, offset \div STREAM_CHUNK_SIZE,
                    offset % STREAM_CHUNK_SIZE, length, <<>>)
  IN  [bytes |-> r.result, gen |-> TRUE, chunks |-> r.chunks]

\* _generate_stream_bytes(seed_hex, offset, length): the bytes, whether a
\* generator was created, and how many chunks were taken from it
generate_stream_bytes(seed_hex, offset, length) ==
  IF length = 0
  THEN [bytes |-> <<>>, gen |-> FALSE, chunks |-> 0]
  ELSE LET r == ReadLoop(seed_hex, 0, offset \div STREAM_CHUNK_SIZE,
                         offset % STREAM_CHUNK_SIZE, length, <<>>)
       IN  [bytes |-> Slice(r.result, 0, length), gen |-> TRUE,
            chunks |-> r.chunks]

\* The stream segment [offset, offset + length) of a seed
Segment(seed_hex, offset, length) ==
  generate_stream_bytes(seed_hex, offset, length).bytes

-----------------------------------------------------------------------------
(* Seed resolution *)

\* The mutation: an unregistered seed_id falls back to the default seed
resolve_seed_hex_defaulting(seed_id, seed_hex) ==
  IF Truthy(seed_hex)
  THEN [err |-> "", hex |-> The(seed_hex)]
  ELSE IF seed_id \in DOMAIN SEED_REGISTRY
  THEN [err |-> "", hex |-> SEED_REGISTRY[seed_id]]
  ELSE [err |-> "", hex |-> SEED_REGISTRY["golden_ratio"]]

\* _resolve_seed_hex(seed_id, seed_hex)
resolve_seed_hex(seed_id, seed_hex) ==
  IF Truthy(seed_hex)
  THEN [err |-> "", hex |-> The(seed_hex)]
  ELSE IF seed_id \in DOMAIN SEED_REGISTRY
  THEN [err |-> "", hex |-> SEED_REGISTRY[seed_id]]
  ELSE [err |-> "ValueError: Unknown seed_id", hex |-> ""]

-----------------------------------------------------------------------------
(* The envelope *)

\* SeedEnvelope(...): the dataclass with its defaults; metadata is a set of
\* <<key, value>> pairs
SeedEnvelope(seed_id, seed_hex, offset, length, checksum, mode, delta, delta_compressed, metadata, created_at) ==
  [version |-> ENVELOPE_VERSION, seed_id |-> seed_id, seed_hex |-> seed_hex,
   offset |-> offset, length |-> length, checksum |-> checksum,
   mode |-> mode, delta |-> delta, delta_compressed |-> delta_compressed,
   catalog_key |-> None, metadata |-> metadata, created_at |-> created_at]

\* The value of the envelope variables when no envelope is held
NoEnvelope == SeedEnvelope("", None, 0, 0, <<>>, "none", None, None, {}, 0)

-----------------------------------------------------------------------------
(* encode *)

\* The mutation: bytes.rfind(sub), the highest index where sub occurs
Find_last(buf, sub) ==
  LET hits == {p \in 0..(Len(buf) - Len(sub)) :
                 SubSeq(buf, p + 1, p + Len(sub)) = sub}
  IN  IF hits = {} THEN -1
      ELSE CHOOSE p \in hits : \A q \in hits : p >= q

\* bytes.find(sub): the lowest index where sub occurs in buf, or -1
Find(buf, sub) ==
  LET hits == {p \in 0..(Len(buf) - Len(sub)) :
                 SubSeq(buf, p + 1, p + Len(sub)) = sub}
  IN  IF hits = {} THEN -1
      ELSE CHOOSE p \in hits : \A q \in hits : p <= q

RECURSIVE ScanLoop(_, _, _, _, _)
\* for chunk_idx in range(scan_depth): ... of encode.  Returns the match
\* (pos >= 0, with the number of chunks taken), no match (pos = -1), or the
\* error raised by the generator.
ScanLoop(data, resolved_hex, scan_depth, chunk_idx, stream_buffer) ==
  IF chunk_idx >= scan_depth
  THEN [err |-> "", pos |-> -1, chunks |-> chunk_idx]
  ELSE LET nxt == universal_qkd_generator(resolved_hex, chunk_idx)
           buffer == stream_buffer \o nxt.chunk
           pos == IF Len(data) <= Len(buffer) THEN Find(buffer, data) ELSE -1
       IN  IF nxt.err # ""
           THEN [err |-> nxt.err, pos |-> -1, chunks |-> chunk_idx]
           ELSE IF pos # -1
           THEN [err |-> "", pos |-> pos, chunks |-> chunk_idx + 1]
           ELSE ScanLoop(data, resolved_hex, scan_depth, chunk_idx + 1,
                         buffer)

\* encode(data, seed_id, seed_hex, scan_depth), called when time.time() = now
encode(data, seed_id, seed_hex, scan_depth, now) ==
  LET resolved == resolve_seed_hex(seed_id, seed_hex)
      data_checksum == Sha256Hex(data)
      data_len == Len(data)
      scan == ScanLoop(data, resolved.hex, scan_depth, 0, <<>>)
      stream_segment == generate_stream_bytes(resolved.hex, 0, data_len).bytes
      delta == XorZip(data, stream_segment)
      delta_compressed == ZlibCompress(delta, 9)
      kept_hex == IF Truthy(seed_hex) THEN seed_hex ELSE None
  IN  IF resolved.err # ""
      THEN [err |-> resolved.err, env |-> NoEnvelope]
      ELSE IF scan.err # ""
      THEN [err |-> scan.err, env |-> NoEnvelope]
      ELSE IF scan.pos # -1
      THEN [err |-> "",
            env |-> SeedEnvelope(seed_id, kept_hex, scan.pos, data_len,
                                 data_checksum, "stream", None, None,
                                 {<<"scan_chunks", scan.chunks>>}, now)]
      ELSE [err |-> "",
            env |-> SeedEnvelope(seed_id, kept_hex, 0, data_len,
                                 data_checksum, "delta", Some(delta),
                                 Some(delta_compressed),
                                 {<<"delta_raw_size", Len(delta)>>,
                                  <<"delta_compressed_size",
                                    Len(delta_compressed)>>}, now)]

\* The mutation: the stream reference is made for the start of the chunk the
\* offset lies in
encode_stream_reference_chunk_aligned(seed_id, offset, length, seed_hex, now) ==
  LET resolved == resolve_seed_hex(seed_id, seed_hex)
      aligned == (offset \div STREAM_CHUNK_SIZE) * STREAM_CHUNK_SIZE
      data == generate_stream_bytes(resolved.hex, aligned, length).bytes
  IN  IF resolved.err # ""
      THEN [err |-> resolved.err, env |-> NoEnvelope]
      ELSE [err |-> "",
            env |-> SeedEnvelope(seed_id,
                                 IF Truthy(seed_hex) THEN seed_hex ELSE None,
                                 aligned, length, Sha256Hex(data), "stream",
                                 None, None, {}, now)]

\* encode_stream_reference(seed_id, offset, length, seed_hex)
encode_stream_reference(seed_id, offset, length, seed_hex, now) ==
  LET resolved == resolve_seed_hex(seed_id, seed_hex)
      data == generate_stream_bytes(resolved.hex, offset, length).bytes
  IN  IF resolved.err # ""
      THEN [err |-> resolved.err, env |-> NoEnvelope]
      ELSE [err |-> "",
            env |-> SeedEnvelope(seed_id,
                                 IF Truthy(seed_hex) THEN seed_hex ELSE None,
                                 offset, length, Sha256Hex(data), "stream",
                                 None, None, {}, now)]

-----------------------------------------------------------------------------
(* decode *)

\* The mutation: every mode tag but delta is read as stream
Reconstruct_any_mode(envelope, resolved_hex) ==
  LET stream_segment ==
        generate_stream_bytes(resolved_hex, envelope.offset,
                              envelope.length).bytes
      inflated == ZlibDecompress(The(envelope.delta_compressed))
  IN  IF envelope.mode # "delta"
      THEN [err |-> "", bytes |-> stream_segment]
      ELSE IF envelope.delta_compressed # None
      THEN IF inflated.err # ""
           THEN [err |-> inflated.err, bytes |-> <<>>]
           ELSE [err |-> "", bytes |-> XorZip(stream_segment, inflated.bytes)]
      ELSE IF envelope.delta # None
      THEN [err |-> "", bytes |-> XorZip(stream_segment, The(envelope.delta))]
      ELSE [err |-> "ValueError: no delta data", bytes |-> <<>>]

\* The bytes decode reconstructs before it verifies them (codec.py 350-372)
Reconstruct(envelope, resolved_hex) ==
  LET stream_segment ==
        generate_stream_bytes(resolved_hex, envelope.offset,
                              envelope.length).bytes
      inflated == ZlibDecompress(The(envelope.delta_compressed))
  IN  IF envelope.mode = "stream"
      THEN [err |-> "", bytes |-> stream_segment]
      ELSE IF envelope.mode = "delta"
      THEN IF envelope.delta_compressed # None
           THEN IF inflated.err # ""
                THEN [err |-> inflated.err, bytes |-> <<>>]
                ELSE [err |-> "",
                      bytes |-> XorZip(stream_segment, inflated.bytes)]
           ELSE IF envelope.delta # None
           THEN [err |-> "",
                 bytes |-> XorZip(stream_segment, The(envelope.delta))]
           ELSE [err |-> "ValueError: no delta data", bytes |-> <<>>]
      ELSE IF envelope.mode = "catalog"
      THEN [err |-> "ValueError: Catalog mode", bytes |-> <<>>]
      ELSE [err |-> "ValueError: Unknown envelope mode", bytes |-> <<>>]

\* The mutation: the checksum is not verified
decode_unverified(envelope) ==
  LET resolved == resolve_seed_hex(envelope.seed_id, envelope.seed_hex)
      rebuilt == Reconstruct(envelope, resolved.hex)
  IN  IF resolved.err # ""
      THEN [err |-> resolved.err, bytes |-> <<>>]
      ELSE rebuilt

\* decode(envelope)
decode(envelope) ==
  LET resolved == resolve_seed_hex(envelope.seed_id, envelope.seed_hex)
      rebuilt == Reconstruct(envelope, resolved.hex)
  IN  IF resolved.err # ""
      THEN [err |-> resolved.err, bytes |-> <<>>]
      ELSE IF rebuilt.err # ""
      THEN rebuilt
      ELSE IF Sha256Hex(rebuilt.bytes) # envelope.checksum
      THEN [err |-> "ValueError: Checksum mismatch", bytes |-> <<>>]
      ELSE [err |-> "", bytes |-> rebuilt.bytes]

-----------------------------------------------------------------------------
(* JSON form *)

\* d.get(key, default)
Get(d, key, default) == IF key \in DOMAIN d THEN d[key] ELSE default

\* d.get(key) as an Optional
GetOpt(d, key) == IF key \in DOMAIN d THEN Some(d[key]) ELSE None

\* The mutation: the explicit seed is left out of the dict
to_dict_without_seed_hex(e) ==
  LET keys ==
        {"version", "seed_id", "offset", "length", "checksum", "mode",
         "metadata", "created_at"}
        \cup (IF e.delta_compressed # None THEN {"delta_compressed"}
              ELSE IF e.delta # None THEN {"delta"} ELSE {})
        \cup (IF Truthy(e.catalog_key) THEN {"catalog_key"} ELSE {})
  IN  [k \in keys |->
         CASE k = "delta_compressed" -> Hex(The(e.delta_compressed))
           [] k = "delta" -> Hex(The(e.delta))
           [] k = "catalog_key" -> The(e.catalog_key)
           [] OTHER -> e[k]]

\* SeedEnvelope.to_dict(): a dict is a function on its keys
to_dict(e) ==
  LET keys ==
        {"version", "seed_id", "offset", "length", "checksum", "mode",
         "metadata", "created_at"}
        \cup (IF Truthy(e.seed_hex) THEN {"seed_hex"} ELSE {})
        \cup (IF e.delta_compressed # None THEN {"delta_compressed"}
              ELSE IF e.delta # None THEN {"delta"} ELSE {})
        \cup (IF Truthy(e.catalog_key) THEN {"catalog_key"} ELSE {})
  IN  [k \in keys |->
         CASE k = "seed_hex" -> The(e.seed_hex)
           [] k = "delta_compressed" -> Hex(The(e.delta_compressed))
           [] k = "delta" -> Hex(The(e.delta))
           [] k = "catalog_key" -> The(e.catalog_key)
           [] OTHER -> e[k]]

\* SeedEnvelope.from_dict(d), called when time.time() = now
from_dict(d, now) ==
  LET built ==
        [version |-> Get(d, "version", ENVELOPE_VERSION),
         seed_id |-> Get(d, "seed_id", "golden_ratio"),
         seed_hex |-> GetOpt(d, "seed_hex"),
         offset |-> Get(d, "offset", 0),
         length |-> Get(d, "length", 0),
         checksum |-> Get(d, "checksum", <<>>),
         mode |-> Get(d, "mode", "stream"),
         delta |-> None,
         delta_compressed |-> None,
         catalog_key |-> GetOpt(d, "catalog_key"),
         metadata |-> Get(d, "metadata", {}),
         created_at |-> Get(d, "created_at", now)]
      packed == FromHex(d["delta_compressed"])
      raw == FromHex(d["delta"])
  IN  IF "delta_compressed" \in DOMAIN d
      THEN IF packed.err # ""
           THEN [err |-> packed.err, env |-> NoEnvelope]
           ELSE [err |-> "",
                 env |-> [built EXCEPT !.delta_compressed = Some(packed.bytes)]]
      ELSE IF "delta" \in DOMAIN d
      THEN IF raw.err # ""
           THEN [err |-> raw.err, env |-> NoEnvelope]
           ELSE [err |-> "", env |-> [built EXCEPT !.delta = Some(raw.bytes)]]
      ELSE [err |-> "", env |-> built]

\* The order in which to_dict inserts its keys
DictKeyOrder ==
  <<"version", "seed_id", "offset", "length", "checksum", "mode", "metadata",
    "created_at", "seed_hex", "delta_compressed", "delta", "catalog_key">>

\* SeedEnvelope.to_json(): the members of the JSON object, in insertion order
to_json(e) ==
  LET d == to_dict(e)
      present == SelectSeq(DictKeyOrder, LAMBDA k : k \in DOMAIN d)
  IN  [i \in 1..Len(present) |-> <<present[i], d[present[i]]>>]

\* SeedEnvelope.from_json(s)
from_json(s, now) ==
  LET names == {s[i][1] : i \in 1..Len(s)}
      loaded == [k \in names |->
                   s[CHOOSE i \in 1..Len(s) :
                       /\ s[i][1] = k
                       /\ \A j \in 1..Len(s) : s[j][1] = k => j <= i][2]]
  IN  from_dict(loaded, now)

-----------------------------------------------------------------------------
(* Binary form *)

\* {"stream": 0, "delta": 1, "catalog": 2}.get(mode, 0)
ModeByte(mode) ==
  CASE mode = "stream" -> 0
    [] mode = "delta" -> 1
    [] mode = "catalog" -> 2
    [] OTHER -> 0

\* {0: "stream", 1: "delta", 2: "catalog"}.get(mode_byte, "stream")
ModeOfByte(mode_byte) ==
  CASE mode_byte = 0 -> "stream"
    [] mode_byte = 1 -> "delta"
    [] mode_byte = 2 -> "catalog"
    [] OTHER -> "stream"

\* SeedEnvelope.to_binary()
to_binary(e) ==
  LET seed_id_bytes == Utf8(e.seed_id)
      digest == FromHex(e.checksum)
      compressed ==
        IF e.delta_compressed # None THEN The(e.delta_compressed)
        ELSE IF e.delta # None THEN ZlibCompress(The(e.delta), 6)
        ELSE <<>>
  IN  IF e.version \notin 0..255
      THEN [err |-> "ValueError: byte must be in range(0, 256)",
            bytes |-> <<>>]
      ELSE IF Len(seed_id_bytes) > 65535 \/ e.offset < 0 \/ e.length < 0
      THEN [err |-> "struct.error", bytes |-> <<>>]
      ELSE IF digest.err # ""
      THEN [err |-> digest.err, bytes |-> <<>>]
      ELSE [err |-> "",
            bytes |-> ENVELOPE_MAGIC \o <<e.version>> \o <<ModeByte(e.mode)>>
                      \o PackLE(Len(seed_id_bytes), 2) \o seed_id_bytes
                      \o PackLE(e.offset, 8) \o PackLE(e.length, 8)
                      \o digest.bytes
                      \o PackLE(Len(compressed), 4) \o compressed]

\* SeedEnvelope.from_binary(data), called when time.time() = now
from_binary(data, now) ==
  LET version == data[5]
      mode == ModeOfByte(data[6])
      sid_len == UnpackLE(Slice(data, 6, 8))
      seed_id == Utf8Decode(Slice(data, 8, 8 + sid_len))
      at_offset == 8 + sid_len
      offset == UnpackLE(Slice(data, at_offset, at_offset + 8))
      length == UnpackLE(Slice(data, at_offset + 8, at_offset + 16))
      at_checksum == at_offset + 16
      checksum == Hex(Slice(data, at_checksum, at_checksum + 32))
      at_delta == at_checksum + 32
      delta_len == UnpackLE(Slice(data, at_delta, at_delta + 4))
      delta_compressed ==
        IF delta_len > 0
        THEN Some(Slice(data, at_delta + 4, at_delta + 4 + delta_len))
        ELSE None
  IN  IF Slice(data, 0, 4) # ENVELOPE_MAGIC
      THEN [err |-> "ValueError: Invalid envelope magic bytes",
            env |-> NoEnvelope]
      ELSE IF Len(data) < 6
      THEN [err |-> "IndexError", env |-> NoEnvelope]
      ELSE IF \/ Len(data) < 8
              \/ Len(data) < at_offset + 16
              \/ Len(data) < at_delta + 4
      THEN [err |-> "struct.error", env |-> NoEnvelope]
      ELSE [err |-> "",
            env |-> [SeedEnvelope(seed_id, None, offset, length, checksum,
                                  mode, None, delta_compressed, {}, now)
                       EXCEPT !.version = version]]

\* SeedEnvelope.envelope_size
envelope_size(e) == Len(to_binary(e).bytes)

\* SeedEnvelope.compression_ratio, as the exact fraction num / den
compression_ratio(e) ==
  IF envelope_size(e) = 0
  THEN [num |-> 0, den |-> 1]
  ELSE [num |-> e.length, den |-> envelope_size(e)]

-----------------------------------------------------------------------------
(* Inputs *)

SeedIds == {"golden_ratio", "pi", "nosuch"}

SeedHexes == {None, Some(""), Some("GOLDEN_RATIO_HEX"), Some("PI_HEX")}

SeedHexValues == {"GOLDEN_RATIO_HEX", "PI_HEX", "E_HEX"}

\* offsets at a chunk start, inside a chunk, at a chunk end, in later chunks
Offsets == {0, 1, 15, 16, 17, 46}

Times == 1..MaxTime

\* time.time() never decreases: the call that builds the first envelope
\* reads the least value, every later call reads some value of Times
FirstTime == CHOOSE t \in Times : \A u \in Times : t <= u

\* data that is a stream segment of some seed, and data that is not
DataInputs ==
  {Segment(h, p, n) : h \in {"GOLDEN_RATIO_HEX", "PI_HEX"},
                      p \in {0, 15, 46}, n \in 0..MaxLen}
  \cup {Segment("GOLDEN_RATIO_HEX", 1, MaxReadLen)}
  \cup {<<255>>, <<0, 255>>, <<65, 66, 67>>,
        [i \in 1..MaxReadLen |-> (i * 85) % 256]}

\* values an attacker may put in place of the checksum
TamperedChecksums ==
  {Hex([i \in 1..32 |-> 0]), Sha256Hex(<<255>>), Sha256Hex(<<>>)}

\* mode tags a hand-built envelope may carry: the three the codec writes and
\* one it does not know
Modes == {"stream", "delta", "catalog", "bogus"}

\* a well-formed binary envelope
GoodBinary ==
  to_binary(encode_stream_reference("pi", 1, MaxLen, None, FirstTime).env).bytes

\* a well-formed binary envelope that carries a delta
GoodDeltaBinary ==
  to_binary(encode(<<255>>, "golden_ratio", None, 1, FirstTime).env).bytes

\* buffers handed to from_binary: the well-formed one, its prefixes around
\* the end of the magic and of the header, copies with one byte of the
\* magic, the version byte or the mode byte replaced, and the one with a
\* delta under each mode byte the format defines and under one it does not
BinaryInputs ==
  {Slice(GoodBinary, 0, n) : n \in (0..7) \cup {Len(GoodBinary) - 1}}
  \cup {[GoodBinary EXCEPT ![i] = (@ + 32) % 256] : i \in 1..6}
  \cup {GoodBinary}
  \cup {[GoodDeltaBinary EXCEPT ![6] = m] : m \in {0, 1, 2, 7}}

\* deltas a hand-built envelope carries: shorter than its length, as long,
\* and longer
DeltaInputs == {[i \in 1..n |-> 255] : n \in 0..MaxLen}

\* how a hand-built envelope carries its delta: raw, compressed, or as a
\* compressed stream that does not decompress
Carryings == {"raw", "compressed", "corrupt"}

NoArgs ==
  [data |-> <<>>, seed_id |-> "", seed_hex |-> None, scan_depth |-> 0,
   offset |-> 0, length |-> 0]

NoWire == [fmt |-> "none", val |-> <<>>]

NoResult ==
  [err |-> "", bytes |-> <<>>, gen |-> FALSE, chunks |-> 0, hex |-> "",
   count |-> 0]

\* SeedCatalog._entries = {} (codec.py 446-447)
NoEntries == [key \in {} |-> NoEnvelope]

\* no thread reads a catalog
NoReaders == [p \in {} |-> [pc |-> "idle"]]

\* the service handles no request
NoRequests == [q \in {} |-> [pc |-> "idle"]]

\* no database call has been made
NoCall == [op |-> "none", api_key |-> "", ret |-> None]

Result(err, bytes) == [NoResult EXCEPT !.err = err, !.bytes = bytes]

-----------------------------------------------------------------------------
(* The caller: one action per operation of the codec *)

\* the last call made
op == trail[Len(trail)]

\* the call before the last one
prev == IF Len(trail) > 1 THEN trail[Len(trail) - 1] ELSE "none"

Init ==
  /\ trail = <<"init">>
  /\ args = NoArgs
  /\ made = NoEnvelope
  /\ sent = NoEnvelope
  /\ env = NoEnvelope
  /\ wire = NoWire
  /\ res = NoResult
  /\ entries = NoEntries
  /\ exported = None
  /\ imported = NoEntries
  /\ users = <<>>
  /\ api_keys = <<>>
  /\ issued = {}
  /\ revokes = {}
  /\ dbcall = NoCall
  /\ readers = NoReaders
  /\ requests = NoRequests
  /\ usage_log = <<>>
  /\ clock = 0

\* The codec functions are pure and each of the three calls below overwrites
\* every variable, so a call sequence is followed from the idle state only:
\* starting one from any other state reaches the same envelopes and results.
Idle == op = "init"

\* data = _generate_stream_bytes(seed_hex, offset, length)
GenerateStreamBytes(seed_hex, offset, length) ==
  /\ Idle
  /\ trail' = <<"read">>
  /\ args' = [NoArgs EXCEPT !.seed_hex = Some(seed_hex), !.offset = offset,
                            !.length = length]
  /\ res' = generate_stream_bytes(seed_hex, offset, length) @@ NoResult
  /\ UNCHANGED <<made, sent, env, wire>>
  /\ UNCHANGED <<catalogVars, dbVars, readerVars, serviceVars>>

\* envelope = encode(data, seed_id, seed_hex, scan_depth)
Encode(data, seed_id, seed_hex, scan_depth, now) ==
  LET r == encode(data, seed_id, seed_hex, scan_depth, now)
  IN  /\ Idle
      /\ trail' = <<"encode">>
      /\ args' = [NoArgs EXCEPT !.data = data, !.seed_id = seed_id,
                                !.seed_hex = seed_hex,
                                !.scan_depth = scan_depth]
      /\ res' = Result(r.err, <<>>)
      /\ made' = r.env
      /\ env' = r.env
      /\ UNCHANGED <<sent, wire>>
      /\ UNCHANGED <<catalogVars, dbVars, readerVars, serviceVars>>

\* envelope = encode_stream_reference(seed_id, offset, length, seed_hex)
EncodeStreamReference(seed_id, offset, length, seed_hex, now) ==
  LET r == encode_stream_reference(seed_id, offset, length, seed_hex, now)
  IN  /\ Idle
      /\ trail' = <<"encode_stream_reference">>
      /\ args' = [NoArgs EXCEPT !.seed_id = seed_id, !.seed_hex = seed_hex,
                                !.offset = offset, !.length = length]
      /\ res' = Result(r.err, <<>>)
      /\ made' = r.env
      /\ env' = r.env
      /\ UNCHANGED <<sent, wire>>
      /\ UNCHANGED <<catalogVars, dbVars, readerVars, serviceVars>>

\* The caller holds an envelope fresh from the encoder
Fresh ==
  /\ env # NoEnvelope
  /\ op \in {"encode", "encode_stream_reference"}

\* envelope.checksum = checksum, on a fresh envelope
TamperChecksum(checksum) ==
  /\ Fresh
  /\ checksum # env.checksum
  /\ trail' = Append(trail, "tamper")
  /\ env' = [env EXCEPT !.checksum = checksum]
  /\ res' = NoResult
  /\ UNCHANGED <<args, made, sent, wire>>
  /\ UNCHANGED <<catalogVars, dbVars, readerVars, serviceVars>>

\* data = decode(envelope)
Decode ==
  /\ env # NoEnvelope
  /\ op # "decode"
  /\ trail' = Append(trail, "decode")
  /\ res' = decode(env) @@ NoResult
  /\ UNCHANGED <<args, made, sent, env, wire>>
  /\ UNCHANGED <<catalogVars, dbVars, readerVars, serviceVars>>

\* binary = envelope.to_binary(), on a fresh envelope or on one built by
\* hand
ToBinary ==
  LET r == to_binary(env)
  IN  /\ Fresh \/ op = "construct"
      /\ trail' = Append(trail, "to_binary")
      /\ res' = Result(r.err, <<>>)
      /\ wire' = IF r.err = "" THEN [fmt |-> "binary", val |-> r.bytes]
                 ELSE NoWire
      /\ sent' = env
      /\ UNCHANGED <<args, made, env>>
      /\ UNCHANGED <<catalogVars, dbVars, readerVars, serviceVars>>

\* envelope = SeedEnvelope.from_binary(binary)
FromBinary(now) ==
  LET r == from_binary(wire.val, now)
  IN  /\ op \in {"to_binary", "receive"}
      /\ wire.fmt = "binary"
      /\ trail' = Append(trail, "from_binary")
      /\ res' = Result(r.err, <<>>)
      /\ env' = r.env
      /\ UNCHANGED <<args, made, sent, wire>>
      /\ UNCHANGED <<catalogVars, dbVars, readerVars, serviceVars>>

\* d = envelope.to_dict(), on a fresh envelope or on one read back from the
\* binary form
ToDict ==
  /\ Fresh \/ (op = "from_binary" /\ env # NoEnvelope)
  /\ trail' = Append(trail, "to_dict")
  /\ res' = NoResult
  /\ wire' = [fmt |-> "dict", val |-> to_dict(env)]
  /\ sent' = env
  /\ UNCHANGED <<args, made, env>>
  /\ UNCHANGED <<catalogVars, dbVars, readerVars, serviceVars>>

\* envelope = SeedEnvelope.from_dict(d)
FromDict(now) ==
  LET r == from_dict(wire.val, now)
  IN  /\ op = "to_dict"
      /\ wire.fmt = "dict"
      /\ trail' = Append(trail, "from_dict")
      /\ res' = Result(r.err, <<>>)
      /\ env' = r.env
      /\ UNCHANGED <<args, made, sent, wire>>
      /\ UNCHANGED <<catalogVars, dbVars, readerVars, serviceVars>>

\* s = envelope.to_json()
ToJson ==
  /\ Fresh
  /\ trail' = Append(trail, "to_json")
  /\ res' = NoResult
  /\ wire' = [fmt |-> "json", val |-> to_json(env)]
  /\ sent' = env
  /\ UNCHANGED <<args, made, env>>
  /\ UNCHANGED <<catalogVars, dbVars, readerVars, serviceVars>>

\* envelope = SeedEnvelope.from_json(s)
FromJson(now) ==
  LET r == from_json(wire.val, now)
  IN  /\ op = "to_json"
      /\ wire.fmt = "json"
      /\ trail' = Append(trail, "from_json")
      /\ res' = Result(r.err, <<>>)
      /\ env' = r.env
      /\ UNCHANGED <<args, made, sent, wire>>
      /\ UNCHANGED <<catalogVars, dbVars, readerVars, serviceVars>>

\* seed_hex = _resolve_seed_hex(seed_id, seed_hex)
ResolveSeedHex(seed_id, seed_hex) ==
  LET r == resolve_seed_hex(seed_id, seed_hex)
  IN  /\ Idle
      /\ trail' = <<"resolve">>
      /\ args' = [NoArgs EXCEPT !.seed_id = seed_id, !.seed_hex = seed_hex]
      /\ res' = [NoResult EXCEPT !.err = r.err, !.hex = r.hex]
      /\ UNCHANGED <<made, sent, env, wire>>
      /\ UNCHANGED <<catalogVars, dbVars, readerVars, serviceVars>>

\* envelope = SeedEnvelope(seed_id=..., seed_hex=..., offset=..., length=...,
\* checksum=..., mode=...): an envelope built by hand, with the checksum of
\* the stream segment it names (of the golden-ratio stream when its seed
\* does not resolve)
Construct(seed_id, seed_hex, offset, length, mode, now) ==
  LET resolved == resolve_seed_hex(seed_id, seed_hex)
      h == IF resolved.err = "" THEN resolved.hex ELSE "GOLDEN_RATIO_HEX"
      e == SeedEnvelope(seed_id, seed_hex, offset, length,
                        Sha256Hex(Segment(h, offset, length)), mode, None,
                        None, {}, now)
  IN  /\ Idle
      /\ trail' = <<"construct">>
      /\ args' = [NoArgs EXCEPT !.seed_id = seed_id, !.seed_hex = seed_hex,
                                !.offset = offset, !.length = length]
      /\ res' = NoResult
      /\ made' = e
      /\ env' = e
      /\ UNCHANGED <<sent, wire>>
      /\ UNCHANGED <<catalogVars, dbVars, readerVars, serviceVars>>

\* envelope = SeedEnvelope(offset=0, length=..., checksum=..., mode="delta",
\* delta=... or delta_compressed=...): a delta-mode envelope built by hand
\* for the default seed, with the checksum of the bytes its delta yields
ConstructDelta(length, delta, carried, now) ==
  LET packed == ZlibCompress(delta, 9)
      broken == [packed EXCEPT ![Len(packed)] = (@ + 1) % 256]
      yields == XorZip(Segment("GOLDEN_RATIO_HEX", 0, length), delta)
      e == SeedEnvelope("golden_ratio", None, 0, length, Sha256Hex(yields),
                        "delta",
                        IF carried = "raw" THEN Some(delta) ELSE None,
                        CASE carried = "raw" -> None
                          [] carried = "compressed" -> Some(packed)
                          [] OTHER -> Some(broken),
                        {}, now)
  IN  /\ Idle
      /\ trail' = <<"construct_delta">>
      /\ args' = [NoArgs EXCEPT !.seed_id = "golden_ratio", !.data = delta,
                                !.length = length]
      /\ res' = NoResult
      /\ made' = e
      /\ env' = e
      /\ UNCHANGED <<sent, wire>>
      /\ UNCHANGED <<catalogVars, dbVars, readerVars, serviceVars>>

\* a buffer arrives from outside
Receive(data) ==
  /\ Idle
  /\ trail' = <<"receive">>
  /\ wire' = [fmt |-> "binary", val |-> data]
  /\ UNCHANGED <<args, made, sent, env, res>>
  /\ UNCHANGED <<catalogVars, dbVars, readerVars, serviceVars>>

Next ==
  \/ \E h \in SeedHexValues, p \in Offsets, n \in 0..MaxReadLen :
       GenerateStreamBytes(h, p, n)
  \/ \E id \in SeedIds \cup {"e"}, h \in SeedHexes : ResolveSeedHex(id, h)
  \/ \E id \in SeedIds, h \in {None, Some("PI_HEX")}, p \in {0, 17},
        n \in {0, MaxLen}, m \in Modes :
       Construct(id, h, p, n, m, FirstTime)
  \/ \E n \in 1..(MaxLen - 1), d \in DeltaInputs, c \in Carryings :
       ConstructDelta(n, d, c, FirstTime)
  \/ \E b \in BinaryInputs : Receive(b)
  \/ \E d \in DataInputs, id \in SeedIds, h \in SeedHexes,
        k \in 0..MaxScanDepth :
       Encode(d, id, h, k, FirstTime)
  \/ \E id \in SeedIds, p \in Offsets, n \in 0..MaxLen, h \in SeedHexes :
       EncodeStreamReference(id, p, n, h, FirstTime)
  \/ \E c \in TamperedChecksums : TamperChecksum(c)
  \/ Decode
  \/ ToBinary
  \/ \E t \in Times : FromBinary(t)
  \/ ToDict
  \/ \E t \in Times : FromDict(t)
  \/ ToJson
  \/ \E t \in Times : FromJson(t)

Spec == Init /\ [][Next]_vars

-----------------------------------------------------------------------------
(* SeedCatalog: _entries is a function from the keys in use to envelopes *)

\* self._entries[key] = envelope
Put(cat, key, envelope) ==
  [k \in DOMAIN cat \cup {key} |-> IF k = key THEN envelope ELSE cat[k]]

\* The mutation: every registered envelope is tagged catalog, a delta
\* result included
register_tagging_all(cat, key, data, seed_id, seed_hex, scan_depth, now) ==
  LET r == encode(data, seed_id, seed_hex, scan_depth, now)
      envelope == [r.env EXCEPT !.mode = "catalog", !.catalog_key = Some(key)]
  IN  IF r.err # ""
      THEN [err |-> r.err, entries |-> cat, env |-> NoEnvelope]
      ELSE [err |-> "", entries |-> Put(cat, key, envelope),
            env |-> envelope]

\* SeedCatalog.lookup(key): the stored envelope, or None
lookup(cat, key) == IF key \in DOMAIN cat THEN Some(cat[key]) ELSE None

\* SeedCatalog.register(key, data, seed_id, seed_hex=..., scan_depth=...)
register(cat, key, data, seed_id, seed_hex, scan_depth, now) ==
  LET r == encode(data, seed_id, seed_hex, scan_depth, now)
      envelope ==
        [r.env EXCEPT !.mode = IF @ = "stream" THEN "catalog" ELSE @,
                      !.catalog_key = Some(key)]
  IN  IF r.err # ""
      THEN [err |-> r.err, entries |-> cat, env |-> NoEnvelope]
      ELSE [err |-> "", entries |-> Put(cat, key, envelope),
            env |-> envelope]

\* The mutation: a missing key is given an empty entry before the error
decode_entry_inserting(cat, key) ==
  LET envelope == cat[key]
      swapped == IF envelope.mode = "catalog"
                 THEN [envelope EXCEPT !.mode = "stream"]
                 ELSE envelope
      r == decode(swapped)
  IN  IF key \notin DOMAIN cat
      THEN [err |-> "KeyError: Catalog key not found", bytes |-> <<>>,
            entries |-> Put(cat, key, NoEnvelope)]
      ELSE [err |-> r.err, bytes |-> r.bytes, entries |-> cat]

\* The mutation: the mode is put back only when decode returns
decode_entry_restoring_on_success(cat, key) ==
  LET envelope == cat[key]
      original_mode == envelope.mode
      swapped == IF envelope.mode = "catalog"
                 THEN [envelope EXCEPT !.mode = "stream"]
                 ELSE envelope
      r == decode(swapped)
      restored == [swapped EXCEPT !.mode = original_mode]
  IN  IF key \notin DOMAIN cat
      THEN [err |-> "KeyError: Catalog key not found", bytes |-> <<>>,
            entries |-> cat]
      ELSE [err |-> r.err, bytes |-> r.bytes,
            entries |-> Put(cat, key, IF r.err = "" THEN restored
                                      ELSE swapped)]

\* SeedCatalog.decode_entry(key): the result, and _entries when it returns
\* (the entry's mode is swapped for the call to decode and put back)
decode_entry(cat, key) ==
  LET envelope == cat[key]
      original_mode == envelope.mode
      swapped == IF envelope.mode = "catalog"
                 THEN [envelope EXCEPT !.mode = "stream"]
                 ELSE envelope
      r == decode(swapped)
      restored == [swapped EXCEPT !.mode = original_mode]
  IN  IF key \notin DOMAIN cat
      THEN [err |-> "KeyError: Catalog key not found", bytes |-> <<>>,
            entries |-> cat]
      ELSE [err |-> r.err, bytes |-> r.bytes,
            entries |-> Put(cat, key, restored)]

\* The mutation: only the catalog-tagged entries are written
export_catalog_tagged_only(cat) ==
  [version |-> ENVELOPE_VERSION,
   entries |-> [k \in {j \in DOMAIN cat : cat[j].mode = "catalog"} |->
                  to_json(cat[k])]]

\* SeedCatalog.export_catalog(): the JSON document, each entry serialized as
\* to_json serializes an envelope
export_catalog(cat) ==
  [version |-> ENVELOPE_VERSION,
   entries |-> [k \in DOMAIN cat |-> to_json(cat[k])]]

\* The mutation: a key the catalog already has keeps its entry
import_catalog_keeping_present(cat, catalog_json, now) ==
  LET found == DOMAIN catalog_json.entries
  IN  [count |-> Cardinality(found),
       entries |-> [k \in DOMAIN cat \cup found |->
                      IF k \in DOMAIN cat
                      THEN cat[k]
                      ELSE from_json(catalog_json.entries[k], now).env]]

\* SeedCatalog.import_catalog(catalog_json), for a document export_catalog
\* wrote (from_dict accepts each of its entries)
import_catalog(cat, catalog_json, now) ==
  LET found == DOMAIN catalog_json.entries
  IN  [count |-> Cardinality(found),
       entries |-> [k \in DOMAIN cat \cup found |->
                      IF k \in found
                      THEN from_json(catalog_json.entries[k], now).env
                      ELSE cat[k]]]

\* keys entries are registered under: an ordinary key and the empty string
Keys == {"a", ""}

\* keys the second catalog has an entry under before it imports: one the
\* first catalog uses and one it never uses
OtherKeys == {"a", "b"}

\* keys entries are asked for: the keys and one never registered
AskedKeys == Keys \cup {"zz"}

\* data registered: stream segments that a scan finds, and data it does not
RegisterData == {<<>>, Segment("GOLDEN_RATIO_HEX", 15, MaxLen), <<255>>}

\* the two catalogs of the model
CatalogNames == {"entries", "imported"}

\* the fields of a stored envelope a holder of it can spoil: the checksum,
\* the seed it names, the compressed delta
Spoils == {"checksum", "seed", "delta"}

\* the stored envelope with one field spoiled
Spoiled(envelope, how) ==
  CASE how = "checksum" ->
         [envelope EXCEPT !.checksum = [@ EXCEPT ![1] = (@ + 1) % 16]]
    [] how = "seed" ->
         [envelope EXCEPT !.seed_id = "nosuch", !.seed_hex = None]
    [] OTHER ->
         [envelope EXCEPT !.delta = None,
                          !.delta_compressed = Some(<<120>>)]

\* the _entries of the named catalog
Catalog(c) == IF c = "entries" THEN entries ELSE imported

CatalogInit ==
  /\ trail = <<"init", "", "">>
  /\ args = NoArgs
  /\ made = NoEnvelope
  /\ sent = NoEnvelope
  /\ env = NoEnvelope
  /\ wire = NoWire
  /\ res = NoResult
  /\ entries = NoEntries
  /\ exported = None
  /\ imported = NoEntries
  /\ users = <<>>
  /\ api_keys = <<>>
  /\ issued = {}
  /\ revokes = {}
  /\ dbcall = NoCall
  /\ readers = NoReaders
  /\ requests = NoRequests
  /\ usage_log = <<>>
  /\ clock = 0

\* envelope = catalog.register(key, data, seed_id, seed_hex=..., scan_depth=...)
\* on the first catalog, while it is being filled: the catalog's operations
\* depend on _entries only, so the registrations are made first; one that
\* raises leaves _entries as it was and ends the filling.  In the catalog's
\* calls args holds the arguments of the last call and env the envelope it
\* returned.
Register(key, data, seed_id, seed_hex, scan_depth, now) ==
  LET r == register(entries, key, data, seed_id, seed_hex, scan_depth, now)
  IN  /\ trail[1] \in {"init", "register"}
      /\ exported = None
      /\ res.err = ""
      /\ trail' = <<"register", "entries", key>>
      /\ args' = [NoArgs EXCEPT !.data = data, !.seed_id = seed_id,
                                !.seed_hex = seed_hex,
                                !.scan_depth = scan_depth]
      /\ res' = Result(r.err, <<>>)
      /\ entries' = r.entries
      /\ env' = r.env
      /\ UNCHANGED <<exported, imported, made, sent, wire, dbVars, readerVars,
                   serviceVars>>

\* envelope = catalog.lookup(key), on either catalog
Lookup(c, key) ==
  /\ trail' = <<"lookup", c, key>>
  /\ res' = NoResult
  /\ env' = IF lookup(Catalog(c), key) = None
            THEN NoEnvelope
            ELSE The(lookup(Catalog(c), key))
  /\ args' = NoArgs
  /\ UNCHANGED <<entries, exported, imported, made, sent, wire, dbVars, readerVars,
                   serviceVars>>

\* data = catalog.decode_entry(key), on either catalog
DecodeEntry(c, key) ==
  LET r == decode_entry(Catalog(c), key)
  IN  /\ trail' = <<"decode_entry", c, key>>
      /\ res' = Result(r.err, r.bytes)
      /\ entries' = IF c = "entries" THEN r.entries ELSE entries
      /\ imported' = IF c = "imported" THEN r.entries ELSE imported
      /\ args' = NoArgs
      /\ env' = NoEnvelope
      /\ UNCHANGED <<exported, made, sent, wire, dbVars, readerVars,
                   serviceVars>>

\* envelope = catalog.lookup(key); envelope.checksum = ... (or seed_id, or
\* delta_compressed): lookup returns the stored envelope itself, so the
\* assignment changes the entry.  Done once, on the second catalog, after
\* the import.
SpoilEntry(key, how) ==
  /\ trail[1] = "import_catalog"
  /\ key \in DOMAIN imported
  /\ how = "delta" => imported[key].mode = "delta"
  /\ trail' = <<"spoil", "imported", key>>
  /\ res' = NoResult
  /\ imported' = Put(imported, key, Spoiled(imported[key], how))
  /\ args' = NoArgs
  /\ env' = imported'[key]
  /\ UNCHANGED <<entries, exported, made, sent, wire, dbVars, readerVars,
                   serviceVars>>

\* catalog_json = catalog.export_catalog(), on the first catalog
ExportCatalog ==
  /\ exported = None
  /\ trail' = <<"export_catalog", "entries", "">>
  /\ res' = NoResult
  /\ exported' = Some(export_catalog(entries))
  /\ args' = NoArgs
  /\ env' = NoEnvelope
  /\ UNCHANGED <<entries, imported, made, sent, wire, dbVars, readerVars,
                   serviceVars>>

\* other.register(key, data): the second catalog is given entries, one a
\* key, before it imports the document
RegisterOther(key) ==
  LET data == <<255>>
      r == register(imported, key, data, "golden_ratio", None, MaxScanDepth,
                    FirstTime)
  IN  /\ \/ trail[1] = "export_catalog"
         \/ trail[1] = "register" /\ trail[2] = "imported"
      /\ key \notin DOMAIN imported
      /\ trail' = <<"register", "imported", key>>
      /\ args' = [NoArgs EXCEPT !.data = data, !.seed_id = "golden_ratio",
                                !.scan_depth = MaxScanDepth]
      /\ res' = Result(r.err, <<>>)
      /\ imported' = r.entries
      /\ env' = r.env
      /\ UNCHANGED <<entries, exported, made, sent, wire, dbVars, readerVars,
                   serviceVars>>

\* count = other.import_catalog(catalog_json): the document is loaded into
\* the second catalog, once, when it is written or when the second catalog
\* has been given entries.  The third item of trail is "" when the
\* catalog was empty before the call.
ImportCatalog(now) ==
  LET r == import_catalog(imported, The(exported), now)
  IN  /\ exported # None
      /\ \/ trail[1] = "export_catalog"
         \/ trail[1] = "register" /\ trail[2] = "imported"
      /\ trail' = <<"import_catalog", "imported",
                    IF imported = NoEntries THEN "" ELSE "merge">>
      /\ res' = [NoResult EXCEPT !.count = r.count]
      /\ imported' = r.entries
      /\ args' = NoArgs
      /\ env' = NoEnvelope
      /\ UNCHANGED <<entries, exported, made, sent, wire, dbVars, readerVars,
                   serviceVars>>

CatalogNext ==
  \/ \E key \in Keys, d \in RegisterData, id \in SeedIds,
        h \in {None, Some("GOLDEN_RATIO_HEX")} :
       Register(key, d, id, h, MaxScanDepth, FirstTime)
  \/ \E c \in CatalogNames, key \in AskedKeys : Lookup(c, key)
  \/ \E c \in CatalogNames, key \in AskedKeys : DecodeEntry(c, key)
  \/ ExportCatalog
  \/ \E key \in OtherKeys : RegisterOther(key)
  \/ \E t \in Times : ImportCatalog(t)
  \/ \E key \in Keys, how \in Spoils : SpoilEntry(key, how)

SpecCatalog == CatalogInit /\ [][CatalogNext]_vars

-----------------------------------------------------------------------------
(* The service database (src/saas/database.py): tables users and api_keys.  *)
(* A table is the sequence of its rows in id order: ids are AUTOINCREMENT   *)
(* and no operation deletes a user or a key, so row i has id i.  A raw API  *)
(* key is a token; its SHA-256 hash is modelled by the token itself.        *)

\* the raw keys config.API_KEY_PREFIX + secrets.token_hex(24) can yield
Tokens == {"gseed_01", "gseed_02"}

\* the e-mail addresses users sign up with
Emails == {"ann@test.com", "bob@test.com"}

\* user ids callers pass: those of the users there can be
UserIds == 1..Cardinality(Emails)

\* key ids callers pass: those of the keys there can be
KeyIds == 1..Cardinality(Tokens)

\* Database.create_user(email, password): email is UNIQUE
create_user(rows, email) ==
  IF \E i \in 1..Len(rows) : rows[i].email = email
  THEN [err |-> "sqlite3.IntegrityError", users |-> rows]
  ELSE [err |-> "",
        users |-> Append(rows, [id |-> Len(rows) + 1, email |-> email,
                                tier |-> "free", active |-> 1])]

\* Database.create_api_key(user_id), when secrets.token_hex returns token
\* and time.time() = now: user_id REFERENCES users(id) (foreign keys are
\* enforced), key_hash is UNIQUE
create_api_key(rows, keys, user_id, token, now) ==
  IF \/ user_id \notin 1..Len(rows)
     \/ \E i \in 1..Len(keys) : keys[i].key_hash = token
  THEN [err |-> "sqlite3.IntegrityError", api_keys |-> keys, api_key |-> ""]
  ELSE [err |-> "",
        api_keys |-> Append(keys, [id |-> Len(keys) + 1, user_id |-> user_id,
                                   key_hash |-> token, created_at |-> now,
                                   last_used_at |-> None, active |-> 1]),
        api_key |-> token]

\* Database.validate_api_key(api_key), called when time.time() = now: the
\* row returned, if any, and table api_keys afterwards
validate_api_key(rows, keys, api_key, now) ==
  LET found == {i \in 1..Len(keys) :
                  keys[i].key_hash = api_key /\ keys[i].active = 1}
      i == CHOOSE j \in found : TRUE
      u == rows[keys[i].user_id]
  IN  IF found # {} /\ u.active = 1
      THEN [ret |-> Some([key_id |-> i, user_id |-> keys[i].user_id,
                          email |-> u.email, tier |-> u.tier]),
            api_keys |-> [keys EXCEPT ![i].last_used_at = Some(now)]]
      ELSE [ret |-> None, api_keys |-> keys]

\* The mutation: the key is revoked whoever asks
revoke_api_key_of_anyone(keys, key_id, user_id) ==
  [i \in 1..Len(keys) |->
     IF keys[i].id = key_id THEN [keys[i] EXCEPT !.active = 0] ELSE keys[i]]

\* Database.revoke_api_key(key_id, user_id): table api_keys afterwards
revoke_api_key(keys, key_id, user_id) ==
  [i \in 1..Len(keys) |->
     IF keys[i].id = key_id /\ keys[i].user_id = user_id
     THEN [keys[i] EXCEPT !.active = 0]
     ELSE keys[i]]

\* Database.update_user_tier(user_id, tier): table users afterwards
update_user_tier(rows, user_id, tier) ==
  [i \in 1..Len(rows) |->
     IF rows[i].id = user_id THEN [rows[i] EXCEPT !.tier = tier] ELSE rows[i]]

DbInit ==
  /\ trail = <<"init">>
  /\ args = NoArgs
  /\ made = NoEnvelope
  /\ sent = NoEnvelope
  /\ env = NoEnvelope
  /\ wire = NoWire
  /\ res = NoResult
  /\ entries = NoEntries
  /\ exported = None
  /\ imported = NoEntries
  /\ users = <<>>
  /\ api_keys = <<>>
  /\ issued = {}
  /\ revokes = {}
  /\ dbcall = NoCall
  /\ readers = NoReaders
  /\ requests = NoRequests
  /\ usage_log = <<>>
  /\ clock = 0

\* what every database action leaves alone
DbFrame ==
  UNCHANGED <<trail, res, codecVars, catalogVars, readerVars, serviceVars>>

\* user = db.create_user(email, password)
CreateUser(email) ==
  /\ users' = create_user(users, email).users
  /\ dbcall' = [NoCall EXCEPT !.op = "create_user"]
  /\ UNCHANGED <<api_keys, issued, revokes>>
  /\ DbFrame

\* db.update_user_tier(user_id, tier)
UpdateUserTier(user_id, tier) ==
  /\ users' = update_user_tier(users, user_id, tier)
  /\ dbcall' = [NoCall EXCEPT !.op = "update_user_tier"]
  /\ UNCHANGED <<api_keys, issued, revokes>>
  /\ DbFrame

\* key_info = db.create_api_key(user_id): the caller keeps the key returned
CreateApiKey(user_id, token, now) ==
  LET r == create_api_key(users, api_keys, user_id, token, now)
  IN  /\ api_keys' = r.api_keys
      /\ issued' = IF r.err = ""
                   THEN issued \cup {[api_key |-> r.api_key,
                                      user_id |-> user_id]}
                   ELSE issued
      /\ dbcall' = [NoCall EXCEPT !.op = "create_api_key",
                                  !.api_key = r.api_key]
      /\ UNCHANGED <<users, revokes>>
      /\ DbFrame

\* result = db.validate_api_key(api_key)
ValidateApiKey(api_key, now) ==
  LET r == validate_api_key(users, api_keys, api_key, now)
  IN  /\ api_keys' = r.api_keys
      /\ dbcall' = [op |-> "validate_api_key", api_key |-> api_key,
                    ret |-> r.ret]
      /\ UNCHANGED <<users, issued, revokes>>
      /\ DbFrame

\* db.revoke_api_key(key_id, user_id); the call is remembered when key_id
\* is the id of a key (of any user) at the time of the call
RevokeApiKey(key_id, user_id) ==
  /\ api_keys' = revoke_api_key(api_keys, key_id, user_id)
  /\ revokes' = IF key_id \in 1..Len(api_keys)
                THEN revokes \cup {<<key_id, user_id>>}
                ELSE revokes
  /\ dbcall' = [NoCall EXCEPT !.op = "revoke_api_key"]
  /\ UNCHANGED <<users, issued>>
  /\ DbFrame

DbNext ==
  \/ \E email \in Emails : CreateUser(email)
  \/ \E u \in UserIds, tier \in {"free", "pro"} : UpdateUserTier(u, tier)
  \/ \E u \in UserIds, token \in Tokens : CreateApiKey(u, token, FirstTime)
  \/ \E k \in Tokens \cup {"gseed_invalid_key"}, t \in Times :
       ValidateApiKey(k, t)
  \/ \E k \in KeyIds, u \in UserIds : RevokeApiKey(k, u)

SpecDb == DbInit /\ [][DbNext]_vars

-----------------------------------------------------------------------------
(* Threads that read one SeedCatalog (codec.py:457-491).  The catalog has   *)
(* no lock: a step of a thread is one statement of the method it runs, and  *)
(* the statements of different threads interleave.  The call of decode, and *)
(* the loop of list_entries and of export_catalog, are taken as one step.   *)

\* the threads
Readers == {"r1", "r2"}

\* SeedCatalog.list_entries(): the listing, by key
list_entries(cat) ==
  [key \in DOMAIN cat |->
     [key |-> key, length |-> cat[key].length, mode |-> cat[key].mode,
      seed_id |-> cat[key].seed_id, checksum |-> cat[key].checksum]]

\* the catalog the threads share: a catalog-tagged entry under "a" and a
\* delta entry under the empty key
SharedCatalog ==
  LET first == register(NoEntries, "a",
                        Segment("GOLDEN_RATIO_HEX", 15, MaxLen),
                        "golden_ratio", None, MaxScanDepth, FirstTime)
  IN  register(first.entries, "", <<255>>, "golden_ratio", None,
               MaxScanDepth, FirstTime).entries

\* no mode has been reported
NoModes == [key \in {} |-> ""]

\* a thread that has not called yet: ret is what its call returned or
\* raised, modes the mode it saw reported for each key
IdleReader ==
  [pc |-> "idle", call |-> "", key |-> "", original_mode |-> "",
   ret |-> [err |-> "", bytes |-> <<>>], modes |-> NoModes]

ReadersInit ==
  /\ trail = <<"init", "", "">>
  /\ args = NoArgs
  /\ made = NoEnvelope
  /\ sent = NoEnvelope
  /\ env = NoEnvelope
  /\ wire = NoWire
  /\ res = NoResult
  /\ entries = SharedCatalog
  /\ exported = None
  /\ imported = NoEntries
  /\ users = <<>>
  /\ api_keys = <<>>
  /\ issued = {}
  /\ revokes = {}
  /\ dbcall = NoCall
  /\ readers = [p \in Readers |-> IdleReader]
  /\ requests = NoRequests
  /\ usage_log = <<>>
  /\ clock = 0

\* what a step of a thread leaves alone, besides the catalog
ReaderFrame ==
  UNCHANGED <<trail, res, exported, imported, codecVars, dbVars, serviceVars>>

\* thread p calls catalog.decode_entry(key)
CallDecodeEntry(p, key) ==
  /\ readers[p].pc = "idle"
  /\ readers' = [readers EXCEPT ![p].pc = "get", ![p].call = "decode_entry",
                                ![p].key = key]
  /\ UNCHANGED entries
  /\ ReaderFrame

\* envelope = self._entries.get(key); if envelope is None: raise KeyError
DecodeEntryGet(p) ==
  /\ readers[p].pc = "get"
  /\ readers' =
       IF readers[p].key \in DOMAIN entries
       THEN [readers EXCEPT ![p].pc = "original_mode"]
       ELSE [readers EXCEPT
               ![p].pc = "done",
               ![p].ret = [err |-> "KeyError: Catalog key not found",
                           bytes |-> <<>>]]
  /\ UNCHANGED entries
  /\ ReaderFrame

\* original_mode = envelope.mode
DecodeEntryOriginalMode(p) ==
  /\ readers[p].pc = "original_mode"
  /\ readers' = [readers EXCEPT
                   ![p].pc = "test",
                   ![p].original_mode = entries[readers[p].key].mode]
  /\ UNCHANGED entries
  /\ ReaderFrame

\* if envelope.mode == "catalog":
DecodeEntryTest(p) ==
  /\ readers[p].pc = "test"
  /\ readers' = [readers EXCEPT
                   ![p].pc = IF entries[readers[p].key].mode = "catalog"
                             THEN "swap" ELSE "decode"]
  /\ UNCHANGED entries
  /\ ReaderFrame

\* envelope.mode = "stream"
DecodeEntrySwap(p) ==
  /\ readers[p].pc = "swap"
  /\ entries' = [entries EXCEPT ![readers[p].key].mode = "stream"]
  /\ readers' = [readers EXCEPT ![p].pc = "decode"]
  /\ ReaderFrame

\* try: return decode(envelope)
DecodeEntryDecode(p) ==
  /\ readers[p].pc = "decode"
  /\ readers' = [readers EXCEPT ![p].pc = "restore",
                                ![p].ret = decode(entries[readers[p].key])]
  /\ UNCHANGED entries
  /\ ReaderFrame

\* finally: envelope.mode = original_mode
DecodeEntryRestore(p) ==
  /\ readers[p].pc = "restore"
  /\ entries' = [entries EXCEPT
                   ![readers[p].key].mode = readers[p].original_mode]
  /\ readers' = [readers EXCEPT ![p].pc = "done"]
  /\ ReaderFrame

\* thread p calls catalog.lookup(key) and reads the mode of what it returns
ReaderLookup(p, key) ==
  /\ readers[p].pc = "idle"
  /\ readers' = [readers EXCEPT
                   ![p].pc = "done", ![p].call = "lookup", ![p].key = key,
                   ![p].modes = IF lookup(entries, key) = None THEN NoModes
                                ELSE [k \in {key} |->
                                        The(lookup(entries, key)).mode]]
  /\ UNCHANGED entries
  /\ ReaderFrame

\* thread p calls catalog.list_entries()
ReaderListEntries(p) ==
  /\ readers[p].pc = "idle"
  /\ readers' = [readers EXCEPT
                   ![p].pc = "done", ![p].call = "list_entries",
                   ![p].modes = [k \in DOMAIN entries |->
                                   list_entries(entries)[k].mode]]
  /\ UNCHANGED entries
  /\ ReaderFrame

\* thread p calls catalog.export_catalog()
ReaderExportCatalog(p) ==
  /\ readers[p].pc = "idle"
  /\ readers' = [readers EXCEPT
                   ![p].pc = "done", ![p].call = "export_catalog",
                   ![p].modes = [k \in DOMAIN entries |->
                                   to_dict(entries[k])["mode"]]]
  /\ UNCHANGED entries
  /\ ReaderFrame

ReadersNext ==
  \E p \in Readers :
    \/ \E key \in AskedKeys : CallDecodeEntry(p, key)
    \/ DecodeEntryGet(p)
    \/ DecodeEntryOriginalMode(p)
    \/ DecodeEntryTest(p)
    \/ DecodeEntrySwap(p)
    \/ DecodeEntryDecode(p)
    \/ DecodeEntryRestore(p)
    \/ \E key \in AskedKeys : ReaderLookup(p, key)
    \/ ReaderListEntries(p)
    \/ ReaderExportCatalog(p)

SpecReaders == ReadersInit /\ [][ReadersNext]_vars

-----------------------------------------------------------------------------
(* The service's rate limit (src/saas/app.py, src/saas/database.py).  A     *)
(* request to /api/v1/encode, /decode or /stream runs check_limits, then    *)
(* the codec operation, then db.log_usage; check_rate_limit and log_usage   *)
(* each open their own connection to the database file, and the steps of    *)
(* requests handled at the same time interleave.  Table usage_log is the    *)
(* sequence of its rows in id order; time is counted in whole seconds.      *)

\* config.RATE_LIMIT_REQUESTS, as set by SEED_RATE_LIMIT
RATE_LIMIT_REQUESTS == 2

\* config.RATE_LIMIT_WINDOW_SECONDS, as set by SEED_RATE_LIMIT_WINDOW
RATE_LIMIT_WINDOW_SECONDS == 1

\* the requests the service handles at the same time
RequestIds == {"q1", "q2"}

\* the operations that are metered
Operations == {"encode", "decode", "stream"}

\* the rows of usage_log check_rate_limit counts for user_id at time now
InWindow(log, user_id, now) ==
  {i \in 1..Len(log) :
     /\ log[i].user_id = user_id
     /\ log[i].timestamp >= now - RATE_LIMIT_WINDOW_SECONDS}

\* Database.check_rate_limit(user_id), called when time.time() = now
check_rate_limit(log, user_id, now) ==
  LET count == Cardinality(InWindow(log, user_id, now))
  IN  [requests_used |-> count,
       requests_limit |-> RATE_LIMIT_REQUESTS,
       allowed |-> count < RATE_LIMIT_REQUESTS]

\* Database.log_usage(user_id, operation, ...), called when time.time() = now
log_usage(log, user_id, operation, now) ==
  Append(log, [user_id |-> user_id, operation |-> operation,
               timestamp |-> now])

\* a handler that serves no request
IdleRequest == [pc |-> "idle", user_id |-> 0, operation |-> ""]

ServiceInit ==
  /\ trail = <<"init">>
  /\ args = NoArgs
  /\ made = NoEnvelope
  /\ sent = NoEnvelope
  /\ env = NoEnvelope
  /\ wire = NoWire
  /\ res = NoResult
  /\ entries = NoEntries
  /\ exported = None
  /\ imported = NoEntries
  /\ users = <<>>
  /\ api_keys = <<>>
  /\ issued = {}
  /\ revokes = {}
  /\ dbcall = NoCall
  /\ readers = NoReaders
  /\ requests = [q \in RequestIds |-> IdleRequest]
  /\ usage_log = <<>>
  /\ clock = 0

\* what a step of the service leaves alone
ServiceFrame ==
  UNCHANGED <<trail, res, codecVars, catalogVars, dbVars, readerVars>>

\* a request of user_id for operation arrives (get_current_user has
\* returned the user); no more requests are taken than MaxLog rows can
\* record
Arrive(q, user_id, operation) ==
  /\ requests[q].pc = "idle"
  /\ Len(usage_log)
       + Cardinality({r \in RequestIds : requests[r].pc # "idle"}) < MaxLog
  /\ requests' = [requests EXCEPT ![q] = [pc |-> "check_limits",
                                          user_id |-> user_id,
                                          operation |-> operation]]
  /\ UNCHANGED <<usage_log, clock>>
  /\ ServiceFrame

\* check_limits(user): HTTP 429 when the rate limit is reached or when
\* check_tier_limits refuses (tier_allowed: the monthly totals are not
\* modelled)
CheckLimits(q, tier_allowed) ==
  LET rate == check_rate_limit(usage_log, requests[q].user_id, clock)
  IN  /\ requests[q].pc = "check_limits"
      /\ requests' = [requests EXCEPT
                        ![q] = IF rate.allowed /\ tier_allowed
                               THEN [@ EXCEPT !.pc = "operate"]
                               ELSE IdleRequest]
      /\ UNCHANGED <<usage_log, clock>>
      /\ ServiceFrame

\* the body of the handler up to db.log_usage: it returns an envelope or
\* data (ok), or raises an HTTP error and nothing is logged
Operate(q, ok) ==
  /\ requests[q].pc = "operate"
  /\ requests' = [requests EXCEPT
                    ![q] = IF ok THEN [@ EXCEPT !.pc = "log_usage"]
                           ELSE IdleRequest]
  /\ UNCHANGED <<usage_log, clock>>
  /\ ServiceFrame

\* db.log_usage(user_id=user["id"], operation=...), and the response
LogUsage(q) ==
  /\ requests[q].pc = "log_usage"
  /\ usage_log' = log_usage(usage_log, requests[q].user_id,
                            requests[q].operation, clock)
  /\ requests' = [requests EXCEPT ![q] = IdleRequest]
  /\ UNCHANGED clock
  /\ ServiceFrame

\* a second passes
Tick ==
  /\ clock < MaxClock
  /\ clock' = clock + 1
  /\ UNCHANGED <<requests, usage_log>>
  /\ ServiceFrame

ServiceNext ==
  \/ \E q \in RequestIds, u \in UserIds, o \in Operations : Arrive(q, u, o)
  \/ \E q \in RequestIds, t \in BOOLEAN : CheckLimits(q, t)
  \/ \E q \in RequestIds, ok \in BOOLEAN : Operate(q, ok)
  \/ \E q \in RequestIds : LogUsage(q)
  \/ Tick

SpecService == ServiceInit /\ [][ServiceNext]_vars

-----------------------------------------------------------------------------
(* Properties *)

\* the first call was encode (with scan_depth >= 1) or
\* encode_stream_reference, and it returned an envelope
Encoded ==
  /\ trail[1] \in {"encode", "encode_stream_reference"}
  /\ trail[1] = "encode" => args.scan_depth >= 1
  /\ made # NoEnvelope

\* the seed the first call's arguments resolve to
ArgSeed == resolve_seed_hex(args.seed_id, args.seed_hex)

\* C1: for every data, every seed that resolves (a registered seed_id or an
\* explicit seed_hex) and every scan_depth >= 1, encode succeeds and
\* decode(encode(data, seed, scan_depth)) returns exactly data.
C1_EncodeDecodeRoundTrip ==
  (op = "encode" /\ args.scan_depth >= 1 /\ ArgSeed.err = "")
    => /\ res.err = ""
       /\ decode(env).err = ""
       /\ decode(env).bytes = args.data

\* data is the stream segment [p, p + Len(data)) of the seed for some p with
\* p + Len(data) <= 16 * scan_depth
InScannedWindow(data, seed_hex, scan_depth) ==
  \E p \in 0..(STREAM_CHUNK_SIZE * scan_depth - Len(data)) :
    Segment(seed_hex, p, Len(data)) = data

\* C2: whenever data is a stream segment of the chosen seed that lies inside
\* the first scan_depth chunks (scan_depth >= 1), encode returns a
\* stream-mode envelope of that length, and decoding it returns data.
C2_StreamSegmentEncodesAsStream ==
  (/\ op = "encode"
   /\ args.scan_depth >= 1
   /\ ArgSeed.err = ""
   /\ InScannedWindow(args.data, ArgSeed.hex, args.scan_depth))
    => /\ res.err = ""
       /\ env.mode = "stream"
       /\ env.length = Len(args.data)
       /\ decode(env).err = ""
       /\ decode(env).bytes = args.data

\* C3: stream segments compose: read(seed, a, b + c) equals read(seed, a, b)
\* followed by read(seed, a + b, c), for every split of the length read.
C3_SegmentsCompose ==
  op = "read"
    => \A b \in 0..args.length :
         res.bytes = Segment(The(args.seed_hex), args.offset, b)
                     \o Segment(The(args.seed_hex), args.offset + b,
                                args.length - b)

\* C3 witness: a read that starts inside a chunk and runs over two chunk
\* boundaries
C3_Witness ==
  /\ op = "read"
  /\ args.offset % STREAM_CHUNK_SIZE # 0
  /\ args.length > STREAM_CHUNK_SIZE
  /\ Len(res.bytes) = args.length

\* C4: the reader returns exactly length bytes after taking finitely many
\* chunks (those up to the one holding the last byte); for length 0 it
\* returns the empty string without creating or advancing a generator.
C4_ReaderReturnsExactlyLength ==
  op = "read"
    => /\ Len(res.bytes) = args.length
       /\ args.length = 0
            => res.bytes = <<>> /\ ~res.gen /\ res.chunks = 0
       /\ args.length > 0
            => /\ res.gen
               /\ res.chunks =
                    (args.offset + args.length - 1) \div STREAM_CHUNK_SIZE + 1

\* C4 witness: a read of length 0 at an offset beyond the first chunk
C4_Witness ==
  /\ op = "read"
  /\ args.length = 0
  /\ args.offset > STREAM_CHUNK_SIZE
  /\ res.bytes = <<>>

\* C5: whenever decode returns bytes, their SHA-256 equals the envelope's
\* checksum; otherwise decode raises and returns nothing.
C5_DecodeReturnsOnlyVerifiedBytes ==
  op = "decode"
    => /\ res.err = "" => Sha256Hex(res.bytes) = env.checksum
       /\ res.err # "" => res.bytes = <<>>

\* C5 witness: decode of a delta-mode envelope returned bytes
C5_Witness ==
  /\ op = "decode"
  /\ env.mode = "delta"
  /\ res.err = ""
  /\ Len(res.bytes) > 0
  /\ Sha256Hex(res.bytes) = env.checksum

\* C6: decoding an envelope produced by encode whose checksum was replaced
\* by a different value always fails with the checksum-mismatch error.
C6_TamperedChecksumIsRejected ==
  (op = "decode" /\ prev = "tamper" /\ trail[1] = "encode")
    => res.err = "ValueError: Checksum mismatch"

\* C6 witness: a tampered envelope of encode was decoded; the checksum put
\* in is a genuine digest of other data
C6_Witness ==
  /\ op = "decode"
  /\ prev = "tamper"
  /\ trail[1] = "encode"
  /\ env.checksum # made.checksum
  /\ env.checksum = Sha256Hex(<<255>>)
  /\ res.err = "ValueError: Checksum mismatch"

\* C7: for every envelope e that decode accepts, produced by encode or
\* encode_stream_reference with a named seed or an explicit seed_hex,
\* decode(from_binary(to_binary(e))) returns the same bytes as decode(e).
C7_BinaryRoundTripDecodesSame ==
  (/\ op = "decode"
   /\ trail = <<trail[1], "to_binary", "from_binary", "decode">>
   /\ Encoded
   /\ decode(made).err = "")
    => /\ res.err = ""
       /\ res.bytes = decode(made).bytes

\* C8: for every envelope e that decode accepts, decode(from_dict(to_dict(e)))
\* and decode(from_json(to_json(e))) return the same bytes as decode(e).
C8_JsonRoundTripDecodesSame ==
  (/\ op = "decode"
   /\ prev \in {"from_dict", "from_json"}
   /\ decode(sent).err = "")
    => /\ res.err = ""
       /\ res.bytes = decode(sent).bytes

\* C8 witness: a delta-mode envelope with an explicit seed_hex went through
\* to_json / from_json and was decoded
C8_Witness ==
  /\ op = "decode"
  /\ prev = "from_json"
  /\ sent.mode = "delta"
  /\ sent.seed_hex # None
  /\ res.err = ""
  /\ Len(res.bytes) > 0
  /\ res.bytes = args.data

\* C9: for every envelope e produced by encode or encode_stream_reference,
\* from_dict(to_dict(e)) equals e in every field.
C9_DictRoundTripFieldForField ==
  (/\ op = "from_dict"
   /\ trail = <<trail[1], "to_dict", "from_dict">>
   /\ Encoded)
    => /\ res.err = ""
       /\ env = made

\* the keys of the JSON form that carry the seed reference, the segment, the
\* checksum, the mode, the delta payload and the catalog key
ContentKeys ==
  {"seed_id", "seed_hex", "offset", "length", "checksum", "mode", "delta",
   "delta_compressed", "catalog_key"}

\* C10: passing an envelope through the binary form and then to JSON yields
\* the same seed reference, offset, length, checksum, mode, delta payload
\* and catalog_key as its own JSON form.
C10_BinaryThenJsonKeepsContent ==
  (/\ op = "to_dict"
   /\ trail = <<trail[1], "to_binary", "from_binary", "to_dict">>
   /\ Encoded)
    => \A k \in ContentKeys :
         /\ k \in DOMAIN wire.val <=> k \in DOMAIN to_dict(made)
         /\ k \in DOMAIN wire.val => wire.val[k] = to_dict(made)[k]

-----------------------------------------------------------------------------
(* Seed resolution, modes and buffers *)

\* the seed names of the registry
RegisteredSeedIds == {"golden_ratio", "pi", "e", "sqrt2"}

\* seed_id and seed_hex name no seed: no non-empty hex and no registered name
NamesNoSeed(seed_id, seed_hex) ==
  /\ seed_hex = None \/ The(seed_hex) = ""
  /\ seed_id \notin RegisteredSeedIds

\* C11: a non-empty explicit seed_hex resolves to itself whatever seed_id
\* is; without one a registered seed_id resolves to its registry entry and
\* an unregistered one fails with the unknown-seed error, no default seed
\* being substituted; encode, encode_stream_reference and decode fail with
\* that error, returning nothing, exactly when their seed names no seed.
C11_SeedResolution ==
  /\ op = "resolve" =>
        IF NamesNoSeed(args.seed_id, args.seed_hex)
        THEN res.err = "ValueError: Unknown seed_id" /\ res.hex = ""
        ELSE /\ res.err = ""
             /\ res.hex = IF args.seed_hex \in {None, Some("")}
                          THEN SEED_REGISTRY[args.seed_id]
                          ELSE The(args.seed_hex)
  /\ op \in {"encode", "encode_stream_reference"} =>
        IF NamesNoSeed(args.seed_id, args.seed_hex)
        THEN res.err = "ValueError: Unknown seed_id" /\ env = NoEnvelope
        ELSE res.err # "ValueError: Unknown seed_id"
  /\ op = "decode" =>
        IF NamesNoSeed(env.seed_id, env.seed_hex)
        THEN res.err = "ValueError: Unknown seed_id" /\ res.bytes = <<>>
        ELSE res.err # "ValueError: Unknown seed_id"

\* an unregistered seed_id has been resolved with an empty seed_hex
C11_Witness ==
  /\ op = "resolve"
  /\ args.seed_id = "nosuch"
  /\ args.seed_hex = Some("")
  /\ res.err = "ValueError: Unknown seed_id"

\* C13 as stated: decode returns bytes only for mode stream or delta; a
\* catalog-mode envelope passed to decode is rejected, and an envelope with
\* any other mode tag is rejected with the unknown-mode error, no bytes
\* being returned in either case.
C13_UnknownModeAlwaysReported ==
  op = "decode" =>
    /\ res.err = "" => env.mode \in {"stream", "delta"}
    /\ env.mode \notin {"stream", "delta"} =>
         res.err # "" /\ res.bytes = <<>>
    /\ env.mode \notin {"stream", "delta", "catalog"} =>
         res.err = "ValueError: Unknown envelope mode"

\* C13, amended: decode returns bytes only for mode stream or delta; a
\* catalog-mode envelope passed to decode is rejected; an envelope with any
\* other mode tag is rejected with the unknown-mode error when its seed
\* resolves and with the unknown-seed error when it does not (the seed is
\* resolved before the mode is looked at); no bytes are returned in any of
\* these cases.
C13_OnlyStreamAndDeltaDecode ==
  op = "decode" =>
    /\ res.err = "" => env.mode \in {"stream", "delta"}
    /\ env.mode \notin {"stream", "delta"} =>
         res.err # "" /\ res.bytes = <<>>
    /\ env.mode \notin {"stream", "delta", "catalog"} =>
         res.err = IF NamesNoSeed(env.seed_id, env.seed_hex)
                   THEN "ValueError: Unknown seed_id"
                   ELSE "ValueError: Unknown envelope mode"

\* decode has been handed an envelope with an unknown mode tag whose seed
\* resolves and whose checksum matches the stream segment it names
C13_Witness ==
  /\ trail = <<"construct", "decode">>
  /\ env.mode = "bogus"
  /\ env.length > 0
  /\ env.checksum = Sha256Hex(Segment(ArgSeed.hex, env.offset, env.length))
  /\ res.err = "ValueError: Unknown envelope mode"

\* C14: from_binary rejects with the invalid-magic error, building no
\* envelope, every buffer whose first 4 bytes are not "GQSE", buffers
\* shorter than 4 bytes included.
C14_BadMagicIsRejected ==
  op = "from_binary" /\ Slice(wire.val, 0, 4) # <<71, 81, 83, 69>> =>
    /\ res.err = "ValueError: Invalid envelope magic bytes"
    /\ env = NoEnvelope

\* from_binary has been handed the 3-byte buffer "GQS"
C14_Witness ==
  /\ trail = <<"receive", "from_binary">>
  /\ wire.val = <<71, 81, 83>>
  /\ res.err = "ValueError: Invalid envelope magic bytes"

\* C15: for every seed that resolves (a registered seed_id or an explicit
\* seed_hex), every offset >= 0 and every length >= 0,
\* encode_stream_reference returns a stream-mode envelope with that offset
\* and length, and decode of it returns the segment
\* _generate_stream_bytes(seed_hex, offset, length).
C15_StreamReferenceDecodesToSegment ==
  /\ op = "encode_stream_reference" /\ ArgSeed.err = "" =>
       /\ res.err = ""
       /\ env.mode = "stream"
       /\ env.offset = args.offset
       /\ env.length = args.length
       /\ env.delta = None /\ env.delta_compressed = None
  /\ trail = <<"encode_stream_reference", "decode">> /\ ArgSeed.err = "" =>
       /\ res.err = ""
       /\ res.bytes = Segment(ArgSeed.hex, args.offset, args.length)

\* a reference into the pi stream that starts inside one chunk and ends in
\* the next has been decoded
C15_Witness ==
  /\ trail = <<"encode_stream_reference", "decode">>
  /\ args.seed_id = "pi"
  /\ args.seed_hex = None
  /\ (args.offset % STREAM_CHUNK_SIZE) # 0
  /\ (args.offset % STREAM_CHUNK_SIZE) + args.length > STREAM_CHUNK_SIZE
  /\ res.bytes = Segment("PI_HEX", args.offset, args.length)

C19_LeftmostMatch ==
  op = "encode" /\ res.err = "" /\ env.mode = "stream" =>
    /\ Segment(ArgSeed.hex, env.offset, Len(args.data)) = args.data
    /\ \A q \in 0..(env.offset - 1) :
         Segment(ArgSeed.hex, q, Len(args.data)) # args.data

\* encode has found, after taking a second chunk, data that occurs in the
\* stream again at a larger offset
C19_Witness ==
  /\ op = "encode"
  /\ env.mode = "stream"
  /\ env.offset > 0
  /\ <<"scan_chunks", 2>> \in env.metadata
  /\ \E q \in (env.offset + 1)..(STREAM_CHUNK_SIZE * MaxScanDepth) :
       Segment(ArgSeed.hex, q, Len(args.data)) = args.data

\* C20: for every seed that resolves and every scan_depth, encode(b"")
\* returns an envelope with mode = stream, length = 0 and no delta payload,
\* and takes no chunk from the stream generator to do so.
C20_EmptyInputIsStreamWithoutScan ==
  op = "encode" /\ args.data = <<>> /\ ArgSeed.err = "" =>
    /\ res.err = ""
    /\ env.mode = "stream"
    /\ env.length = 0
    /\ env.delta = None /\ env.delta_compressed = None
    /\ ScanLoop(args.data, ArgSeed.hex, args.scan_depth, 0, <<>>).chunks = 0
    /\ \A n \in 1..MaxScanDepth : <<"scan_chunks", n>> \notin env.metadata

\* C21: every delta-mode envelope encode creates (here with scan_depth >= 1)
\* carries exactly one of the raw delta and the compressed delta, never both
\* and never neither, and the decompressed length of that payload is the
\* envelope's length.
C21_DeltaEnvelopeCarriesOnePayload ==
  op = "encode" /\ Encoded /\ env.mode = "delta" =>
    /\ (env.delta = None) # (env.delta_compressed = None)
    /\ env.delta # None => Len(The(env.delta)) = env.length
    /\ env.delta_compressed # None =>
         /\ ZlibDecompress(The(env.delta_compressed)).err = ""
         /\ Len(ZlibDecompress(The(env.delta_compressed)).bytes) = env.length

\* C22: in every envelope that encode, encode_stream_reference, from_dict,
\* from_json or from_binary returns, mode = stream implies that neither a raw
\* delta nor a compressed delta is present.
C22_StreamEnvelopeCarriesNoDelta ==
  /\ op \in {"encode", "encode_stream_reference", "from_dict", "from_json",
             "from_binary"}
  /\ res.err = ""
  /\ env.mode = "stream"
  => env.delta = None /\ env.delta_compressed = None

\* C23: in delta-mode decode, a stored delta that fails to decompress, or
\* whose decompressed length differs from the envelope's length, makes
\* decode fail instead of returning bytes.
C23_WrongLengthDeltaIsRejected ==
  trail = <<"construct_delta", "decode">> =>
    LET inflated == ZlibDecompress(The(env.delta_compressed))
        wrong == IF env.delta_compressed # None
                 THEN inflated.err # "" \/ Len(inflated.bytes) # env.length
                 ELSE Len(The(env.delta)) # env.length
    IN  wrong => res.err # ""

\* C27: scan_depth caps the search of encode, for every seed that resolves:
\* encode takes at most scan_depth chunks from the generator, a stream-mode
\* envelope it returns lies within the first scan_depth chunks and records
\* scan_chunks <= scan_depth, and when data does not occur within the first
\* scan_depth chunks encode returns mode = delta, offset = 0,
\* length = len(data).
C27_ScanDepthIsHardCap ==
  op = "encode" /\ ArgSeed.err = "" =>
    LET scan == ScanLoop(args.data, ArgSeed.hex, args.scan_depth, 0, <<>>)
        scanned == Segment(ArgSeed.hex, 0, STREAM_CHUNK_SIZE * args.scan_depth)
    IN  /\ scan.chunks <= args.scan_depth
        /\ res.err = "" /\ env.mode = "stream" =>
             /\ env.offset + env.length <= STREAM_CHUNK_SIZE * args.scan_depth
             /\ \A n \in 0..(MaxScanDepth + 1) :
                  <<"scan_chunks", n>> \in env.metadata => n <= args.scan_depth
        /\ Find(scanned, args.data) = -1 =>
             /\ res.err = ""
             /\ env.mode = "delta"
             /\ env.offset = 0
             /\ env.length = Len(args.data)

\* the modes the binary layout has a byte for
BinaryModes == {"stream", "delta", "catalog"}

\* C29: the binary form never turns an unrecognized mode into a valid one:
\* from_binary of to_binary(envelope) for an envelope whose mode is not
\* stream, delta or catalog, and from_binary of a buffer whose mode byte is
\* not 0, 1 or 2, yield no stream-mode envelope that decode accepts.
C29_UnknownModeStaysUnknown ==
  LET unrecognized ==
        \/ /\ trail = <<"construct", "to_binary", "from_binary">>
           /\ sent.mode \notin BinaryModes
        \/ /\ trail = <<"receive", "from_binary">>
           /\ Len(wire.val) >= 6
           /\ wire.val[6] \notin {0, 1, 2}
  IN  unrecognized /\ res.err = "" =>
        ~(env.mode = "stream" /\ decode(env).err = "")

-----------------------------------------------------------------------------
(* Catalog properties *)

\* what decode_entry returns or raises
Outcome(cat, key) ==
  [err |-> decode_entry(cat, key).err, bytes |-> decode_entry(cat, key).bytes]

\* C12: importing export_catalog() of a catalog with N entries into an
\* empty catalog returns N and yields a catalog with the same N keys, in
\* which decode_entry(key) returns the bytes it returns in the original,
\* for every key, catalog-tagged and delta entries alike.
C12_ExportImportRoundTrip ==
  trail = <<"import_catalog", "imported", "">> =>
    /\ res.count = Cardinality(DOMAIN entries)
    /\ DOMAIN imported = DOMAIN entries
    /\ \A key \in DOMAIN entries :
         /\ Outcome(entries, key).err = ""
         /\ Outcome(imported, key) = Outcome(entries, key)

\* a catalog holding a catalog-tagged entry and a delta entry, one of them
\* with an explicit seed_hex, has been exported and imported
C12_Witness ==
  /\ trail = <<"import_catalog", "imported", "">>
  /\ res.count = Cardinality(Keys)
  /\ \E j, k \in DOMAIN imported :
       /\ imported[j].mode = "catalog"
       /\ imported[k].mode = "delta"
       /\ imported[k].seed_hex # None
       /\ Outcome(imported, j).bytes # <<>>
       /\ Outcome(imported, k).bytes # <<>>

\* C24: register(key, data, seed_id) that returns stores under key the
\* envelope encode produces for the same arguments, with catalog_key = key
\* and mode catalog exactly when encode produced stream (a delta result
\* stays delta); it replaces what was under key, lookup(key) returns the new
\* envelope and decode_entry(key) the registered data, and the entries
\* under other keys are unchanged.
C24_RegisterStoresTaggedEncoding ==
  [][\A key \in Keys :
       trail' = <<"register", "entries", key>> /\ res'.err = "" =>
         LET r == encode(args'.data, args'.seed_id, args'.seed_hex,
                         args'.scan_depth, FirstTime)
         IN  /\ r.err = ""
             /\ DOMAIN entries' = DOMAIN entries \cup {key}
             /\ entries'[key].catalog_key = Some(key)
             /\ entries'[key].mode =
                  (IF r.env.mode = "stream" THEN "catalog" ELSE "delta")
             /\ [entries'[key] EXCEPT !.mode = r.env.mode,
                                      !.catalog_key = r.env.catalog_key]
                  = r.env
             /\ env' = entries'[key]
             /\ lookup(entries', key) = Some(entries'[key])
             /\ Outcome(entries', key) = [err |-> "", bytes |-> args'.data]
             /\ \A k \in DOMAIN entries \ {key} : entries'[k] = entries[k]]_vars

\* a delta registration has replaced a catalog-tagged entry under the same
\* key while another key holds an entry
C24_Witness ==
  /\ trail = <<"register", "entries", "a">>
  /\ res.err = ""
  /\ args.data = <<255>>
  /\ entries["a"].mode = "delta"
  /\ "" \in DOMAIN entries
  /\ entries[""].mode = "catalog"

\* C25: decode_entry(key) leaves every stored envelope as it found it,
\* whether decode returned or raised (checksum mismatch, unknown seed, bad
\* delta): the entry's mode is what it was before the call (catalog stays
\* catalog, delta stays delta) and no other field has changed.
C25_DecodeEntryRestoresEntry ==
  [][trail'[1] = "decode_entry" => entries' = entries /\ imported' = imported]_vars

\* decode_entry has raised on a catalog-tagged entry, which is still
\* catalog-tagged
C25_Witness ==
  /\ trail = <<"decode_entry", "imported", "a">>
  /\ res.err = "ValueError: Checksum mismatch"
  /\ imported["a"].mode = "catalog"

\* C28: import_catalog into a catalog that already has entries returns the
\* number of entries found in the JSON, replaces the entry of every key
\* present in the JSON with the imported envelope, and leaves the entry of
\* every key absent from the JSON unchanged.
C28_ImportMergesIntoCatalog ==
  [][trail' = <<"import_catalog", "imported", "merge">> =>
       LET found == DOMAIN The(exported).entries
       IN  /\ imported # NoEntries
           /\ res'.count = Cardinality(found)
           /\ DOMAIN imported' = DOMAIN imported \cup found
           /\ \A k \in found :
                /\ to_json(imported'[k]) = The(exported).entries[k]
                /\ Outcome(imported', k) = Outcome(entries, k)
           /\ \A k \in DOMAIN imported \ found :
                imported'[k] = imported[k]]_vars

\* a document with two entries has been imported into a catalog that had
\* entries of its own under one of the two keys and under another key: it
\* now holds the document's catalog-tagged entry under the first and its
\* own delta entry under the other
C28_Witness ==
  /\ trail = <<"import_catalog", "imported", "merge">>
  /\ res.count = Cardinality(Keys)
  /\ DOMAIN imported = Keys \cup OtherKeys
  /\ imported["a"].mode = "catalog"
  /\ imported["b"].mode = "delta"

\* C17: decode_entry(key) on a key that is not in the catalog fails with the
\* key-not-found error and leaves the catalog, its set of keys and every
\* stored envelope, unchanged.
C17_MissingKeyLeavesCatalogUnchanged ==
  [][\A c \in CatalogNames, key \in AskedKeys :
       trail' = <<"decode_entry", c, key>> /\ key \notin DOMAIN Catalog(c) =>
         /\ res'.err = "KeyError: Catalog key not found"
         /\ res'.bytes = <<>>
         /\ entries' = entries
         /\ imported' = imported]_vars

\* decode_entry has been called with a key that a catalog of two entries
\* does not hold
C17_Witness ==
  /\ trail = <<"decode_entry", "entries", "zz">>
  /\ DOMAIN entries = Keys
  /\ res.err = "KeyError: Catalog key not found"

\* C26: threads that only read one catalog (decode_entry, lookup,
\* list_entries, export_catalog) are safe under every interleaving: each
\* decode_entry returns or raises what it does when run alone, no listing,
\* export or lookup reports a mode other than the entry's own, and once
\* every call has finished every entry is as it was before.
C26_ConcurrentReadersAreSafe ==
  /\ \A p \in DOMAIN readers :
       readers[p].pc = "done" =>
         /\ readers[p].call = "decode_entry" =>
              readers[p].ret = Outcome(SharedCatalog, readers[p].key)
         /\ \A k \in DOMAIN readers[p].modes :
              readers[p].modes[k] = SharedCatalog[k].mode
  /\ (\A p \in DOMAIN readers : readers[p].pc \in {"idle", "done"}) =>
       entries = SharedCatalog

-----------------------------------------------------------------------------
(* Database properties *)

\* the id of the api_keys row that holds the key
KeyIdOf(api_key) ==
  CHOOSE i \in 1..Len(api_keys) : api_keys[i].key_hash = api_key

\* revoke_api_key has been called with the id of the key and the id of the
\* user it was issued to
RevokedByOwner(k) == <<KeyIdOf(k.api_key), k.user_id>> \in revokes

\* C18: a key create_api_key returned validates to the user it was issued
\* to until it is revoked; once revoke_api_key(key_id, user_id) has been
\* called by that user, validate_api_key returns None for the key in every
\* later state, whatever is called in between; revoke calls carrying another
\* user_id leave the key valid.
C18_ApiKeyLifecycle ==
  \A k \in issued :
    LET now == validate_api_key(users, api_keys, k.api_key, FirstTime).ret
    IN  /\ IF RevokedByOwner(k)
           THEN now = None
           ELSE /\ now # None
                /\ The(now).user_id = k.user_id
                /\ The(now).key_id = KeyIdOf(k.api_key)
        /\ dbcall.op = "validate_api_key" /\ dbcall.api_key = k.api_key =>
             dbcall.ret = now

\* one key has been revoked by its owner and the other only by someone
\* else, and validate_api_key has just returned None for the first: the
\* second still validates
C18_Witness ==
  /\ dbcall.op = "validate_api_key"
  /\ dbcall.ret = None
  /\ \E k, m \in issued :
       /\ k.api_key = dbcall.api_key
       /\ RevokedByOwner(k)
       /\ m.api_key # k.api_key
       /\ ~RevokedByOwner(m)
       /\ \E u \in UserIds : <<KeyIdOf(m.api_key), u>> \in revokes
       /\ api_keys[KeyIdOf(m.api_key)].last_used_at # None

-----------------------------------------------------------------------------
(* Service properties *)

\* C30: for each user, under every interleaving of the requests, no
\* rate-limit window holds more than RATE_LIMIT_REQUESTS rows of usage_log;
\* and check_rate_limit reports allowed exactly when the rows in the
\* window are fewer than the limit.
C30_RateLimitHoldsUnderConcurrency ==
  \A u \in UserIds :
    /\ \A now \in 0..clock :
         Cardinality({i \in InWindow(usage_log, u, now) :
                        usage_log[i].timestamp <= now}) <= RATE_LIMIT_REQUESTS
    /\ check_rate_limit(usage_log, u, clock).allowed
         <=> Cardinality(InWindow(usage_log, u, clock)) < RATE_LIMIT_REQUESTS

====
